---- MODULE Spec2Model ----
(***************************************************************************)
(* Planning-poker room: the session reducer (worker/src/logic.ts), the     *)
(* visibility filter (sanitizeSession) and the room coordinator            *)
(* (GameRoom in worker/src/index.ts).                                      *)
(*                                                                         *)
(* Representation of JavaScript values                                     *)
(*   string        a sequence of one-character strings, <<"A","n">>        *)
(*   null          Null, undefined  Undefined (sequences holding one       *)
(*                 multi-character word, so they never equal a string)     *)
(*   number|null   an integer, NullNum for null                            *)
(*   number in a   NumberValue, where the code expects a string            *)
(*   text field                                                            *)
(*   exception     Thrown, in place of the value a call would return       *)
(*   token         a positive integer; NoToken when the field is absent.   *)
(*                 generateSecureToken draws 256 random bits: the model    *)
(*                 hands out 1, 2, 3, ... so every token is fresh          *)
(*   task id       a positive integer from a counter; NoTask for null      *)
(*   object        a function from its own keys; a property read also      *)
(*                 sees the keys every object inherits (ObjectProtoKeys)   *)
(*   action        a record holding exactly the fields the message has     *)
(***************************************************************************)
EXTENDS Integers, Sequences, FiniteSets, TLC

VARIABLES
    session,      \* the persisted SessionState ("session" key), or NoSession
    now,          \* nowSeconds(): the wall clock read by the last handler
    tokenCount,   \* number of host tokens generateSecureToken has issued
    taskCount,    \* number of task ids issued
    sockets,      \* state.getWebSockets(): the accepted connections
    sessionsMap,  \* GameRoom.sessionsMap: connection -> announced name
    accepted,     \* number of connections accepted so far (they are numbered)
    sent,         \* connection -> messages the last handler sent to it
    alarm,        \* the time the cleanup alarm is armed for, or NullNum
    lastOp,       \* what the last handler did (kind, authority, effect)
    response,     \* the HTTP answer of the last step if it was POST /init
    inbox,        \* events that reached the room and wait to be delivered
    handlers,     \* handler invocations in progress, each at one of its awaits
    msgCount,     \* number of WebSocket messages that reached the room
    putCount,     \* number of storage.put("session", ...) calls made by messages
    expected,     \* the messages so far applied one after another, in arrival order
    delivered,    \* connection -> the state messages it was sent, by put number
    rateLimitMap, \* the Worker's rateLimitMap: client IP -> {count, resetAt}
    dateNow,      \* Date.now() of the last POST /create, in milliseconds
    createLog     \* client IP -> the times of its requests that passed checkRateLimit

\* the handlers as they run between two awaits of a storage operation
serialVars == <<inbox, handlers, msgCount, putCount, expected, delivered>>

\* the Worker in front of the rooms
edgeVars == <<rateLimitMap, dateNow, createLog>>

vars == <<session, now, tokenCount, taskCount, sockets, sessionsMap, accepted, sent, alarm,
          lastOp, response, inbox, handlers, msgCount, putCount, expected, delivered,
          rateLimitMap, dateNow, createLog>>

----------------------------------------------------------------------------
(* Program constants *)

MAX_NAME_LENGTH == 50
MAX_TASK_TITLE_LENGTH == 200
MAX_TASKS_PER_SESSION == 100
MAX_PARTICIPANTS == 50
MAX_DESCRIPTION_LENGTH == 500
MAX_ESTIMATE_LENGTH == 20
MAX_DURATION == 3600
MIN_ADD_SECONDS == 10
MAX_ADD_SECONDS == 300

(* Bounds of the model *)

MaxNow == 1          \* the clock runs over 0..MaxNow
MaxTokens == 3       \* tokens issued in one run (initial one and transfers)
MaxTasks == 2        \* tasks created in one run
MaxEndsAt == 71      \* add_time is not taken past this expiry
MaxSockets == 2      \* connections accepted in one run
MaxMessages == 2     \* WebSocket messages sent to the room in one run

----------------------------------------------------------------------------
(* JavaScript values *)

Null == <<"null">>
Undefined == <<"undefined">>
NumberValue == <<"number">>
NullNum == 0 - 1
NoToken == 0
NoTask == 0
NoSession == [absent |-> TRUE]
NoResponse == [none |-> TRUE]
EmptyObj == [x \in {} |-> Null]

Has(a, f) == f \in DOMAIN a

\* typeof v === 'string'
IsString(v) == v \notin {Null, Undefined, NumberValue}

\* !!v for a value that is a string, a number other than 0, null or undefined
IsTruthy(v) == v \notin {Null, Undefined, <<>>}

\* what a call that throws a TypeError yields instead of a state
Thrown == [thrown |-> TRUE]

ObjectProtoKeys ==
    { <<"c","o","n","s","t","r","u","c","t","o","r">>,
      <<"t","o","S","t","r","i","n","g">> }

\* obj[key] is truthy: an own entry (every own entry is an object) or an
\* inherited member of Object.prototype
Truthy(obj, key) == key \in DOMAIN obj \/ key \in ObjectProtoKeys

\* delete obj[key]
Delete(obj, key) == [k \in DOMAIN obj \ {key} |-> obj[k]]

\* obj[key] = val
Put(obj, key, val) == [k \in DOMAIN obj \cup {key} |-> IF k = key THEN val ELSE obj[k]]

IsSpace(c) == c = " "

RECURSIVE TrimStart(_)
TrimStart(s) ==
    IF s = <<>> THEN <<>>
    ELSE IF IsSpace(Head(s)) THEN TrimStart(Tail(s)) ELSE s

RECURSIVE TrimEnd(_)
TrimEnd(s) ==
    IF s = <<>> THEN <<>>
    ELSE IF IsSpace(s[Len(s)]) THEN TrimEnd(SubSeq(s, 1, Len(s) - 1)) ELSE s

Trim(s) == TrimEnd(TrimStart(s))

Slice(s, n) == IF Len(s) <= n THEN s ELSE SubSeq(s, 1, n)

StripAngles(s) == SelectSeq(s, LAMBDA c : c \notin {"<", ">"})

sanitizeString(input, maxLength) == StripAngles(Slice(Trim(input), maxLength))

isValidName(a) ==
    /\ Has(a, "name")
    /\ IsTruthy(a.name) /\ IsString(a.name)
    /\ Len(sanitizeString(a.name, MAX_NAME_LENGTH)) >= 1
    /\ Len(sanitizeString(a.name, MAX_NAME_LENGTH)) <= MAX_NAME_LENGTH

isValidTaskTitle(a) ==
    /\ Has(a, "title")
    /\ IsTruthy(a.title) /\ IsString(a.title)
    /\ Len(sanitizeString(a.title, MAX_TASK_TITLE_LENGTH)) >= 1
    /\ Len(sanitizeString(a.title, MAX_TASK_TITLE_LENGTH)) <= MAX_TASK_TITLE_LENGTH

deckValues ==
    { <<"0">>, <<"1">>, <<"2">>, <<"3">>, <<"5">>, <<"8">>, <<"1","3">>,
      <<"2","1">>, <<"3","4">>, <<"5","5">>, <<"8","9">>, <<"?">>, <<"%">> }   \* "%" stands for the break card

initialVotingState == [status |-> "idle", endsAt |-> NullNum]

----------------------------------------------------------------------------
(* State Reducer: worker/src/logic.ts *)

UndefinedKey == <<"u","n","d","e","f","i","n","e","d">>

\* action.name used as a property key (an absent field reads as "undefined")
NameKey(a) == IF Has(a, "name") THEN a.name ELSE UndefinedKey

RoleOf(a) == IF Has(a, "role") THEN a.role ELSE "undefined"

\* what obj[key] reads for a member inherited from Object.prototype
ProtoMember == [inherited |-> TRUE]

DefaultTitle == <<"N","e","w"," ","T","a","s","k">>

\* index of tasks.find(t => t.id === id), 0 when there is none
FindTask(tasks, id) ==
    IF \E i \in 1..Len(tasks) : tasks[i].id = id
    THEN CHOOSE i \in 1..Len(tasks) :
            /\ tasks[i].id = id
            /\ \A j \in 1..(i - 1) : tasks[j].id # id
    ELSE 0

\* tasks.forEach(task => delete task.votes[name])
DeleteVotes(tasks, name) ==
    [i \in 1..Len(tasks) |-> [tasks[i] EXCEPT !.votes = Delete(@, name)]]

ClearActiveVotes_All(s) ==
    [s EXCEPT !.tasks = [i \in 1..Len(@) |-> [@[i] EXCEPT !.votes = EmptyObj]]]

\* const task = tasks.find(active); if (task) task.votes = {}
ClearActiveVotes(s) ==
    LET i == FindTask(s.tasks, s.activeTaskId) IN
    IF i = 0 THEN s ELSE [s EXCEPT !.tasks[i].votes = EmptyObj]

\* JSON.parse(JSON.stringify(session)): a member that is a function is dropped
cloneSession(s) ==
    [s EXCEPT !.participants =
        [k \in {n \in DOMAIN @ : @[n] # ProtoMember} |-> @[k]]]

ensureTask(s, tid) ==
    IF Len(s.tasks) = 0
    THEN [s EXCEPT !.tasks = Append(@, [id |-> tid, title |-> DefaultTitle,
                                         description |-> <<>>, votes |-> EmptyObj,
                                         finalEstimate |-> Null]),
                   !.activeTaskId = tid]
    ELSE s

\* requireHost letting an action without a hostToken through
requireHost_MissingTokenPasses(s, a) ==
    \/ ~Has(a, "hostToken")
    \/ a.hostToken = s.host.hostToken

requireHost(s, a) ==
    /\ Has(a, "hostToken")
    /\ a.hostToken # NoToken
    /\ a.hostToken = s.host.hostToken

\* join that does not hold a closed room's guests back as requests
applyJoin_NoGate(next, a) ==
    IF ~isValidName(a) THEN next
    ELSE LET sanitizedName == sanitizeString(a.name, MAX_NAME_LENGTH) IN
         IF Truthy(next.participants, sanitizedName) THEN next
         ELSE IF Cardinality(DOMAIN next.participants) >= MAX_PARTICIPANTS THEN next
         ELSE [next EXCEPT !.participants = Put(@, sanitizedName, [role |-> RoleOf(a)])]

applyJoin(next, a) ==
    IF ~isValidName(a) THEN next
    ELSE LET sanitizedName == sanitizeString(a.name, MAX_NAME_LENGTH) IN
         IF Truthy(next.participants, sanitizedName) THEN next
         ELSE IF Cardinality(DOMAIN next.participants) >= MAX_PARTICIPANTS THEN next
         ELSE IF next.sessionMode = "closed" /\ ~requireHost(next, a)
              THEN [next EXCEPT !.joinRequests = Put(@, sanitizedName, [role |-> RoleOf(a)])]
              ELSE [next EXCEPT !.participants = Put(@, sanitizedName, [role |-> RoleOf(a)])]

applyApproveJoin(next, a) ==
    IF ~requireHost(next, a) THEN next
    ELSE IF NameKey(a) \in DOMAIN next.joinRequests
         THEN [next EXCEPT !.participants = Put(@, NameKey(a), next.joinRequests[NameKey(a)]),
                           !.joinRequests = Delete(@, NameKey(a))]
         ELSE IF NameKey(a) \in ObjectProtoKeys
              THEN [next EXCEPT !.participants = Put(@, NameKey(a), ProtoMember)]
              ELSE next

applyRejectJoin(next, a) ==
    IF ~requireHost(next, a) THEN next
    ELSE [next EXCEPT !.joinRequests = Delete(@, NameKey(a))]

applyAddTask(next, a, tid) ==
    IF ~isValidTaskTitle(a) THEN next
    ELSE IF Len(next.tasks) >= MAX_TASKS_PER_SESSION THEN next
    ELSE IF next.sessionMode = "closed" /\ ~requireHost(next, a) THEN next
    ELSE IF ~Has(a, "actor") \/ a.actor = <<>> \/ ~Truthy(next.participants, a.actor) THEN next
    ELSE IF Has(a, "description") /\ IsTruthy(a.description) /\ ~IsString(a.description)
         THEN Thrown       \* sanitizeString: input.trim is not a function
    ELSE LET sanitizedTitle == sanitizeString(a.title, MAX_TASK_TITLE_LENGTH)
             sanitizedDescription ==
                 IF Has(a, "description") /\ IsTruthy(a.description)
                 THEN sanitizeString(a.description, MAX_DESCRIPTION_LENGTH)
                 ELSE Undefined
         IN [next EXCEPT !.tasks = Append(@, [id |-> tid, title |-> sanitizedTitle,
                                              description |-> sanitizedDescription,
                                              votes |-> EmptyObj, finalEstimate |-> Null]),
                         !.activeTaskId = IF @ = NoTask THEN tid ELSE @]

\* select_task that does not look the task up
applySelectTask_NoFind(next, a) ==
    IF ~requireHost(next, a) THEN next
    ELSE IF ~Has(a, "taskId") THEN next
    ELSE [next EXCEPT !.activeTaskId = a.taskId, !.voting = initialVotingState]

applySelectTask(next, a) ==
    IF ~requireHost(next, a) THEN next
    ELSE IF ~Has(a, "taskId") \/ FindTask(next.tasks, a.taskId) = 0 THEN next
    ELSE [next EXCEPT !.activeTaskId = a.taskId, !.voting = initialVotingState]

\* cast_vote that does not look at the round status
applyCastVote_AnyRound(next, a) ==
    IF next.activeTaskId = NoTask \/ next.status = "ended" THEN next
    ELSE LET i == FindTask(next.tasks, next.activeTaskId) IN
         IF i = 0 THEN next
         ELSE IF ~Has(a, "actor") \/ a.actor = <<>> \/ ~Truthy(next.participants, a.actor) THEN next
         ELSE IF a.actor \notin DOMAIN next.participants THEN next
         ELSE IF next.participants[a.actor].role # "voter" THEN next
         ELSE IF ~Has(a, "value") \/ a.value \notin deckValues THEN next
         ELSE [next EXCEPT !.tasks[i].votes = Put(@, a.actor, a.value)]

applyCastVote(next, a) ==
    IF next.activeTaskId = NoTask \/ next.status = "ended" THEN next
    ELSE IF next.voting.status # "open" THEN next
    ELSE LET i == FindTask(next.tasks, next.activeTaskId) IN
         IF i = 0 THEN next
         ELSE IF ~Has(a, "actor") \/ a.actor = <<>> \/ ~Truthy(next.participants, a.actor) THEN next
         ELSE IF a.actor \notin DOMAIN next.participants THEN next
         ELSE IF next.participants[a.actor].role # "voter" THEN next
         ELSE IF ~Has(a, "value") \/ a.value \notin deckValues THEN next
         ELSE [next EXCEPT !.tasks[i].votes = Put(@, a.actor, a.value)]

\* an absent durationSeconds passes both comparisons and makes endsAt NaN,
\* which the next JSON copy of the session turns into null
applyStartVoting(next, a, t, tid) ==
    IF ~requireHost(next, a) THEN next
    ELSE IF Has(a, "durationSeconds") /\ (a.durationSeconds < 0 \/ a.durationSeconds > MAX_DURATION)
         THEN next
    ELSE LET endsAt == IF ~Has(a, "durationSeconds") \/ a.durationSeconds = 0
                       THEN NullNum ELSE t + a.durationSeconds
         IN ClearActiveVotes(ensureTask([next EXCEPT !.voting = [status |-> "open", endsAt |-> endsAt]], tid))

\* close_voting that leaves the expiry of the round in place
applyCloseVoting_KeepsExpiry(next, a) ==
    IF ~requireHost(next, a) THEN next
    ELSE [next EXCEPT !.voting.status = "closed"]

applyCloseVoting(next, a) ==
    IF ~requireHost(next, a) THEN next
    ELSE [next EXCEPT !.voting = [status |-> "closed", endsAt |-> NullNum]]

applyReveal(next, a) ==
    IF ~requireHost(next, a) THEN next
    ELSE [next EXCEPT !.voting = [status |-> "revealed", endsAt |-> NullNum]]

\* an absent seconds passes both comparisons and makes endsAt NaN, which the
\* next JSON copy of the session turns into null
applyAddTime(next, a) ==
    IF ~requireHost(next, a) THEN next
    ELSE IF Has(a, "seconds") /\ (a.seconds < MIN_ADD_SECONDS \/ a.seconds > MAX_ADD_SECONDS)
         THEN next
    ELSE IF next.voting.status = "open" /\ next.voting.endsAt \notin {NullNum, 0}
         THEN [next EXCEPT !.voting.endsAt = IF Has(a, "seconds") THEN @ + a.seconds ELSE NullNum]
         ELSE next

applyClearVotes(next, a) ==
    IF ~requireHost(next, a) THEN next
    ELSE [ClearActiveVotes(next) EXCEPT !.voting = initialVotingState]

applySetFinalEstimate(next, a) ==
    IF ~requireHost(next, a) THEN next
    ELSE LET i == IF Has(a, "taskId") THEN FindTask(next.tasks, a.taskId) ELSE 0 IN
         IF i = 0 THEN next
         ELSE IF ~Has(a, "estimate") \/ ~IsString(a.estimate)
              THEN Thrown  \* sanitizeString: input.trim on undefined, null or a number
         ELSE [next EXCEPT !.tasks[i].finalEstimate = sanitizeString(a.estimate, MAX_ESTIMATE_LENGTH)]

\* set_role that leaves the votes of a new observer in place
applySetRole_KeepsVotes(next, a) ==
    IF ~requireHost(next, a) THEN next
    ELSE IF ~Truthy(next.participants, NameKey(a)) THEN next
    ELSE IF NameKey(a) \in DOMAIN next.participants
         THEN [next EXCEPT !.participants[NameKey(a)].role = RoleOf(a)]
         ELSE next

applySetRole(next, a) ==
    IF ~requireHost(next, a) THEN next
    ELSE IF ~Truthy(next.participants, NameKey(a)) THEN next
    ELSE LET withRole == IF NameKey(a) \in DOMAIN next.participants
                         THEN [next EXCEPT !.participants[NameKey(a)].role = RoleOf(a)]
                         ELSE next
         IN IF RoleOf(a) = "observer"
            THEN [withRole EXCEPT !.tasks = DeleteVotes(@, NameKey(a))]
            ELSE withRole

\* kick that leaves the votes of the kicked participant in place
applyKick_KeepsVotes(next, a) ==
    IF ~requireHost(next, a) THEN next
    ELSE IF NameKey(a) = next.host.name THEN next
    ELSE [next EXCEPT !.participants = Delete(@, NameKey(a)),
                      !.joinRequests = Delete(@, NameKey(a))]

applyKick(next, a) ==
    IF ~requireHost(next, a) THEN next
    ELSE IF NameKey(a) = next.host.name THEN next
    ELSE [next EXCEPT !.participants = Delete(@, NameKey(a)),
                      !.tasks = DeleteVotes(@, NameKey(a)),
                      !.joinRequests = Delete(@, NameKey(a))]

\* transfer_host that hands the old secret to the new host
applyTransferHost_KeepsToken(next, a, tok) ==
    IF ~requireHost(next, a) THEN next
    ELSE IF ~Truthy(next.participants, NameKey(a)) THEN next
    ELSE [next EXCEPT !.host = [name |-> NameKey(a), hostToken |-> next.host.hostToken]]

applyTransferHost(next, a, tok) ==
    IF ~requireHost(next, a) THEN next
    ELSE IF ~Truthy(next.participants, NameKey(a)) THEN next
    ELSE [next EXCEPT !.host = [name |-> NameKey(a), hostToken |-> tok]]

\* end_session that does not ask for the host token
applyEndSession_AnySender(next, a) ==
    [next EXCEPT !.status = "ended"]

applyEndSession(next, a) ==
    IF ~requireHost(next, a) THEN next
    ELSE [next EXCEPT !.status = "ended"]

\* next.updatedAt = nowSeconds() that leaves the old stamp
stamp_KeepsOld(s, t) == s

\* next.updatedAt = nowSeconds()
stamp(s, t) == [s EXCEPT !.updatedAt = t]

\* applyAction(session, action) with the clock reading t, the token tok that
\* generateSecureToken would return and the task id tid a new task would get
applyAction(s, a, t, tok, tid) ==
    LET next == stamp(cloneSession(s), t) IN
    CASE a.type = "join" -> applyJoin(next, a)
      [] a.type = "approve_join" -> applyApproveJoin(next, a)
      [] a.type = "reject_join" -> applyRejectJoin(next, a)
      [] a.type = "add_task" -> applyAddTask(next, a, tid)
      [] a.type = "select_task" -> applySelectTask(next, a)
      [] a.type = "cast_vote" -> applyCastVote(next, a)
      [] a.type = "start_voting" -> applyStartVoting(next, a, t, tid)
      [] a.type = "close_voting" -> applyCloseVoting(next, a)
      [] a.type = "reveal" -> applyReveal(next, a)
      [] a.type = "add_time" -> applyAddTime(next, a)
      [] a.type = "clear_votes" -> applyClearVotes(next, a)
      [] a.type = "set_final_estimate" -> applySetFinalEstimate(next, a)
      [] a.type = "set_role" -> applySetRole(next, a)
      [] a.type = "kick" -> applyKick(next, a)
      [] a.type = "transfer_host" -> applyTransferHost(next, a, tok)
      [] a.type = "end_session" -> applyEndSession(next, a)
      [] OTHER -> next

createInitialSession(sessionId, hostName, sessionMode, t, tok) ==
    LET sanitizedHostName == sanitizeString(hostName, MAX_NAME_LENGTH) IN
    [ sessionId |-> sessionId,
      createdAt |-> t,
      updatedAt |-> t,
      host |-> [name |-> sanitizedHostName, hostToken |-> tok],
      sessionMode |-> sessionMode,
      status |-> "active",
      participants |-> Put(EmptyObj, sanitizedHostName, [role |-> "voter"]),
      joinRequests |-> EmptyObj,
      tasks |-> <<>>,
      activeTaskId |-> NoTask,
      voting |-> initialVotingState ]

----------------------------------------------------------------------------
(* Visibility Filter: sanitizeSession, worker/src/logic.ts *)

VotedMarker == <<"v","o","t","e","d">>

\* showVotesForThisTask that also shows the votes of a closed round
showVotes_ClosedRound(state, task) ==
    \/ state.voting.status \in {"revealed", "closed"}
    \/ state.status = "ended"
    \/ (task.id # state.activeTaskId /\ DOMAIN task.votes # {})
    \/ (task.id = state.activeTaskId /\ state.voting.status = "idle" /\ DOMAIN task.votes # {})

\* showVotesForThisTask without the rule for an idle round
showVotes_NoIdleRule(state, task) ==
    \/ state.voting.status = "revealed"
    \/ state.status = "ended"
    \/ (task.id # state.activeTaskId /\ DOMAIN task.votes # {})

\* showVotesForThisTask
showVotes(state, task) ==
    LET isRevealed == state.voting.status = "revealed" \/ state.status = "ended"
        isTaskActive == task.id = state.activeTaskId
        taskHasVotes == DOMAIN task.votes # {}
    IN \/ isRevealed
       \/ (~isTaskActive /\ taskHasVotes)
       \/ (isTaskActive /\ state.voting.status = "idle" /\ taskHasVotes)

\* masking that hides the requester's own vote too
maskVotes_HidesOwn(state, task, clientName) ==
    [name \in DOMAIN task.votes |->
        IF showVotes(state, task) THEN task.votes[name] ELSE VotedMarker]

maskVotes(state, task, clientName) ==
    [name \in DOMAIN task.votes |->
        IF name = clientName \/ showVotes(state, task)
        THEN task.votes[name]
        ELSE VotedMarker]

\* the host member of the projection
sanitizeHost(state, clientName) ==
    LET isHost == clientName = state.host.name IN
    IF ~isHost /\ clientName # Undefined
    THEN [name |-> state.host.name]
    ELSE state.host

\* clientName is Undefined when the caller passes no name
sanitizeSession(state, clientName) ==
    LET clean == cloneSession(state) IN
    [clean EXCEPT
        !.host = sanitizeHost(state, clientName),
        !.tasks = [i \in 1..Len(clean.tasks) |->
                      [clean.tasks[i] EXCEPT !.votes = maskVotes(state, clean.tasks[i], clientName)]]]

----------------------------------------------------------------------------
(* Inputs *)

NameA == <<"A">>
NameB == <<"B">>
NameC == <<"C">>
TitleT == <<"T">>
Five == <<"5">>
NotACard == <<"4">>

Modes == {"open", "closed"}
Roles == {"voter", "observer"}
TaskIdInputs == 1..(MaxTasks + 1)

\* the action a, carrying hostToken tk unless tk is NoToken
WithToken(a, tk) == IF tk = NoToken THEN a ELSE a @@ [hostToken |-> tk]

\* the action a, carrying actor ac unless ac is Undefined
WithActor(a, ac) == IF ac = Undefined THEN a ELSE a @@ [actor |-> ac]

HostRestricted ==
    { "approve_join", "reject_join", "select_task", "start_voting", "close_voting",
      "reveal", "add_time", "clear_votes", "set_final_estimate", "set_role", "kick",
      "transfer_host", "end_session" }

----------------------------------------------------------------------------
(* The reducer driven from a freshly created session *)

NoSends == [ws \in 1..MaxSockets |-> <<>>]

\* the Worker has seen no request: rateLimitMap = new Map()
EdgeIdle ==
    /\ rateLimitMap = EmptyObj
    /\ dateNow = 0
    /\ createLog = EmptyObj

\* no event waits, no handler runs, nothing was sent
SerialIdle ==
    /\ inbox = <<>>
    /\ handlers = <<>>
    /\ msgCount = 0
    /\ putCount = 0
    /\ expected = session
    /\ delivered = NoSends

\* what a handler leaves in lastOp
Op(type, auth, changed) == [type |-> type, auth |-> auth, changed |-> changed]

\* an action that took effect is recorded with its kind; one that changed
\* nothing but the timestamp as "denied" (a host-restricted kind without the
\* host token) or "ignored"
Outcome(s, a, s2, t) ==
    IF s2 # [s EXCEPT !.updatedAt = t] THEN Op(a.type, requireHost(s, a), TRUE)
    ELSE IF a.type \in HostRestricted /\ ~requireHost(s, a) THEN Op("denied", FALSE, FALSE)
    ELSE Op("ignored", requireHost(s, a), FALSE)

\* the clock readings a handler may take, Date.now(): the clock does not go
\* back; where time passes by Elapse the handlers read the present
Readings == IF now > MaxNow THEN {now} ELSE now..MaxNow

\* one call of applyAction on the stored session, at a clock reading t; the
\* result is stored unless the call threw
Reduce(a) ==
    /\ session # NoSession
    /\ \E t \in Readings :
        LET nextState == applyAction(session, a, t, tokenCount + 1, taskCount + 1) IN
        /\ now' = t
        /\ IF nextState = Thrown
           THEN /\ lastOp' = Op("error", FALSE, FALSE)
                /\ UNCHANGED <<session, tokenCount, taskCount>>
           ELSE /\ nextState.host.hostToken # session.host.hostToken => tokenCount < MaxTokens
                /\ Len(nextState.tasks) # Len(session.tasks) => taskCount < MaxTasks
                /\ nextState.voting.endsAt <= MaxEndsAt
                /\ session' = nextState
                /\ tokenCount' = IF nextState.host.hostToken # session.host.hostToken
                                  THEN tokenCount + 1 ELSE tokenCount
                /\ taskCount' = IF Len(nextState.tasks) # Len(session.tasks)
                                 THEN taskCount + 1 ELSE taskCount
                /\ lastOp' = Outcome(session, a, nextState, t)
    /\ UNCHANGED <<sockets, sessionsMap, accepted, sent, alarm, response>>
    /\ UNCHANGED serialVars
    /\ UNCHANGED edgeVars

Join(names, roles, tokens) ==
    \E n \in names, r \in roles, tk \in tokens :
        Reduce(WithToken([type |-> "join", name |-> n, role |-> r], tk))

ApproveJoin(names, tokens) ==
    \E n \in names, tk \in tokens :
        Reduce(WithToken([type |-> "approve_join", name |-> n], tk))

RejectJoin(names, tokens) ==
    \E n \in names, tk \in tokens :
        Reduce(WithToken([type |-> "reject_join", name |-> n], tk))

AddTask(actors, titles, tokens) ==
    \E ac \in actors, ti \in titles, tk \in tokens :
        Reduce(WithToken(WithActor([type |-> "add_task", title |-> ti], ac), tk))

SelectTask(ids, tokens) ==
    \E id \in ids, tk \in tokens :
        Reduce(WithToken([type |-> "select_task", taskId |-> id], tk))

CastVote(actors, values) ==
    \E ac \in actors, v \in values :
        Reduce(WithActor([type |-> "cast_vote", value |-> v], ac))

StartVoting(durations, tokens) ==
    \E d \in durations, tk \in tokens :
        Reduce(WithToken([type |-> "start_voting", durationSeconds |-> d], tk))

CloseVoting(tokens) ==
    \E tk \in tokens : Reduce(WithToken([type |-> "close_voting"], tk))

Reveal(tokens) ==
    \E tk \in tokens : Reduce(WithToken([type |-> "reveal"], tk))

AddTime(amounts, tokens) ==
    \E sec \in amounts, tk \in tokens :
        Reduce(WithToken([type |-> "add_time", seconds |-> sec], tk))

ClearVotes(tokens) ==
    \E tk \in tokens : Reduce(WithToken([type |-> "clear_votes"], tk))

SetFinalEstimate(ids, estimates, tokens) ==
    \E id \in ids, e \in estimates, tk \in tokens :
        Reduce(WithToken([type |-> "set_final_estimate", taskId |-> id, estimate |-> e], tk))

SetRole(names, roles, tokens) ==
    \E n \in names, r \in roles, tk \in tokens :
        Reduce(WithToken([type |-> "set_role", name |-> n, role |-> r], tk))

Kick(names, tokens) ==
    \E n \in names, tk \in tokens :
        Reduce(WithToken([type |-> "kick", name |-> n], tk))

TransferHost(names, tokens) ==
    \E n \in names, tk \in tokens :
        Reduce(WithToken([type |-> "transfer_host", name |-> n], tk))

EndSession(tokens) ==
    \E tk \in tokens : Reduce(WithToken([type |-> "end_session"], tk))

\* the token the host's client holds
HostToken == {session.host.hostToken}

----------------------------------------------------------------------------
(* Estimation: a closed room, the host A and a guest B voting on tasks *)

InitVoting ==
    /\ session = createInitialSession(1, NameA, "closed", 0, 1)
    /\ now = 0
    /\ tokenCount = 1
    /\ taskCount = 0
    /\ sockets = {}
    /\ sessionsMap = EmptyObj
    /\ accepted = 0
    /\ sent = NoSends
    /\ alarm = NullNum
    /\ lastOp = Op("init", FALSE, TRUE)
    /\ SerialIdle
    /\ EdgeIdle
    /\ response = NoResponse

NextVoting ==
    \/ Join({NameB}, {"voter"}, {NoToken})
    \/ ApproveJoin({NameB}, HostToken)
    \/ AddTask({NameA}, {TitleT}, HostToken)
    \/ SelectTask(TaskIdInputs, HostToken)
    \/ CastVote({NameA, NameB}, {Five, NotACard})
    \/ StartVoting({60}, HostToken)
    \/ CloseVoting(HostToken)
    \/ Reveal(HostToken)
    \/ ClearVotes(HostToken)
    \/ SetRole({NameB}, Roles, HostToken)
    \/ Kick({NameB}, HostToken)
    \/ EndSession(HostToken)

SpecVoting == InitVoting /\ [][NextVoting]_vars

----------------------------------------------------------------------------
(* Rounds: the host alone driving the round and the room's lifecycle, with  *)
(* and without the host token                                               *)

InitRounds ==
    /\ session = createInitialSession(1, NameA, "closed", 0, 1)
    /\ now = 0
    /\ tokenCount = 1
    /\ taskCount = 0
    /\ sockets = {}
    /\ sessionsMap = EmptyObj
    /\ accepted = 0
    /\ sent = NoSends
    /\ alarm = NullNum
    /\ lastOp = Op("init", FALSE, TRUE)
    /\ SerialIdle
    /\ EdgeIdle
    /\ response = NoResponse

NextRounds ==
    \/ SelectTask(TaskIdInputs, HostToken)
    \/ CastVote({NameA}, {Five})
    \/ StartVoting({60}, {NoToken} \cup HostToken)
    \/ CloseVoting({NoToken} \cup HostToken)
    \/ Reveal({NoToken} \cup HostToken)
    \/ ClearVotes({NoToken} \cup HostToken)
    \/ SetFinalEstimate({1}, {Five, Null}, HostToken)
    \/ EndSession({NoToken} \cup HostToken)

SpecRounds == InitRounds /\ [][NextRounds]_vars

----------------------------------------------------------------------------
(* Membership: joining, approval, kicking and host transfer, in an open or  *)
(* a closed room, with names that sanitizeString changes                    *)

NameBTag == <<"B", " ", "<">>     \* "B <", which sanitizeString turns into "B "
NameBSp == <<"B", " ">>           \* "B "
Spaces == <<" ", " ">>

\* k times the letter x: the names of the guests that fill a room
Filler(k) == [i \in 1..k |-> "x"]

\* the session after the host let Filler(1) .. Filler(k) in as voters (each
\* join carrying the host token, at the clock reading of the creation)
Filled(mode, k) ==
    [createInitialSession(1, NameA, mode, 0, 1) EXCEPT
        !.participants = [n \in {NameA} \cup {Filler(i) : i \in 1..k} |-> [role |-> "voter"]]]

InitMembers ==
    /\ \E mode \in Modes, k \in {0, MAX_PARTICIPANTS - 1} : session = Filled(mode, k)
    /\ now = 0
    /\ tokenCount = 1
    /\ taskCount = 0
    /\ sockets = {}
    /\ sessionsMap = EmptyObj
    /\ accepted = 0
    /\ sent = NoSends
    /\ alarm = NullNum
    /\ lastOp = Op("init", FALSE, TRUE)
    /\ SerialIdle
    /\ EdgeIdle
    /\ response = NoResponse

\* every token issued so far, and no token at all
IssuedTokens == 0..tokenCount

NextMembers ==
    \/ Join({NameB, NameBTag, NameBSp}, {"voter"}, {NoToken} \cup HostToken)
    \/ ApproveJoin({NameB, NameBSp}, HostToken)
    \/ RejectJoin({NameB}, HostToken)
    \/ Kick({NameA, NameB, NameBSp}, IssuedTokens)
    \/ TransferHost({NameA, NameB}, HostToken)

SpecMembers == InitMembers /\ [][NextMembers]_vars

----------------------------------------------------------------------------
(* Admission near the ceiling: a closed room one participant below          *)
(* MAX_PARTICIPANTS, with B and C asking to join                            *)

InitCeiling ==
    /\ session = Filled("closed", MAX_PARTICIPANTS - 2)
    /\ now = 0
    /\ tokenCount = 1
    /\ taskCount = 0
    /\ sockets = {}
    /\ sessionsMap = EmptyObj
    /\ accepted = 0
    /\ sent = NoSends
    /\ alarm = NullNum
    /\ lastOp = Op("init", FALSE, TRUE)
    /\ SerialIdle
    /\ EdgeIdle
    /\ response = NoResponse

NextCeiling ==
    \/ Join({NameB, NameC}, Roles, {NoToken} \cup HostToken)
    \/ ApproveJoin({NameB, NameC}, {NoToken} \cup HostToken)
    \/ RejectJoin({NameB, NameC}, HostToken)
    \/ Kick({NameB, NameC}, HostToken)

SpecCeiling == InitCeiling /\ [][NextCeiling]_vars

----------------------------------------------------------------------------
(* Room Coordinator: GameRoom, worker/src/index.ts *)

hibernationTimeout == 3600     \* 60 * 60 * 1000 ms, in seconds
sessionInactivityTimeout == 604800   \* 7 * 24 * 60 * 60 * 1000 ms, in seconds

StateMsg(projection) == [state |-> projection]
ErrorMsg(text) == [error |-> text]
CloseMsg(code, reason) == [close |-> code, reason |-> reason]
PongMsg == [type |-> "PONG"]

NotFoundNotice_NoClose == <<ErrorMsg("Session not found")>>

\* what a connection is sent when its action finds no stored session:
\* ws.send({error}) and ws.close(1000, "Session not found")
NotFoundNotice == <<ErrorMsg("Session not found"), CloseMsg(1000, "Session not found")>>

\* sessionsMap.get(ws)
NameOf(map, ws) == IF ws \in DOMAIN map THEN map[ws] ELSE Undefined

\* what broadcast(s) sends: to every accepted connection its own projection
broadcast_SkipsFirst(s, conns, map) ==
    [ws \in 1..MaxSockets |->
        IF ws \in conns \ {1} THEN <<StateMsg(sanitizeSession(s, NameOf(map, ws)))>> ELSE <<>>]

broadcast(s, conns, map) ==
    [ws \in 1..MaxSockets |->
        IF ws \in conns THEN <<StateMsg(sanitizeSession(s, NameOf(map, ws)))>> ELSE <<>>]

\* storage.put(session) refuses a value that holds a function
Storable(s) == \A n \in DOMAIN s.participants : s.participants[n] # ProtoMember

Init ==
    /\ session = NoSession
    /\ now = 0
    /\ tokenCount = 0
    /\ taskCount = 0
    /\ sockets = {}
    /\ sessionsMap = EmptyObj
    /\ accepted = 0
    /\ sent = NoSends
    /\ alarm = NullNum
    /\ lastOp = Op("start", FALSE, FALSE)
    /\ SerialIdle
    /\ EdgeIdle
    /\ response = NoResponse

\* what POST /init answers for the session it found or made
InitResponse(s) == [session |-> s, hostToken |-> s.host.hostToken]

\* what fetch answers when the handler threw
ErrorResponse == [status |-> 500]

\* POST /init that builds a session although one is stored
InitRequest_Resets ==
    \E hostName \in {NameA, Spaces}, mode \in Modes, t \in Readings :
        /\ now' = t
        /\ sent' = NoSends
        /\ IF ~isValidName([name |-> hostName])
              THEN /\ lastOp' = Op("init", FALSE, FALSE)
                   /\ response' = ErrorResponse
                   /\ UNCHANGED <<session, tokenCount, alarm>>
           ELSE /\ tokenCount < MaxTokens
                /\ session' = createInitialSession(1, hostName, mode, t, tokenCount + 1)
                /\ tokenCount' = tokenCount + 1
                /\ alarm' = t + hibernationTimeout
                /\ lastOp' = Op("init", FALSE, session = NoSession)
                /\ response' = InitResponse(session')
        /\ UNCHANGED <<taskCount, sockets, sessionsMap, accepted>>
        /\ UNCHANGED serialVars
        /\ UNCHANGED edgeVars

\* POST /init: the stored session if there is one, else a new one
InitRequest ==
    \E hostName \in {NameA, Spaces}, mode \in Modes, t \in Readings :
        /\ now' = t
        /\ sent' = NoSends
        /\ IF session # NoSession
              THEN /\ lastOp' = Op("init", FALSE, FALSE)
                   /\ response' = InitResponse(session)
                   /\ UNCHANGED <<session, tokenCount, alarm>>
           ELSE IF ~isValidName([name |-> hostName])
              THEN /\ lastOp' = Op("init", FALSE, FALSE)
                   /\ response' = ErrorResponse
                   /\ UNCHANGED <<session, tokenCount, alarm>>
           ELSE /\ session' = createInitialSession(1, hostName, mode, t, tokenCount + 1)
                /\ tokenCount' = tokenCount + 1
                /\ alarm' = t + hibernationTimeout
                /\ lastOp' = Op("init", FALSE, TRUE)
                /\ response' = InitResponse(session')
        /\ UNCHANGED <<taskCount, sockets, sessionsMap, accepted>>
        /\ UNCHANGED serialVars
        /\ UNCHANGED edgeVars

\* the WebSocket upgrade in fetch
Connect ==
    /\ accepted < MaxSockets
    /\ \E t \in Readings :
        LET ws == accepted + 1 IN
        /\ now' = t
        /\ accepted' = ws
        /\ sockets' = sockets \cup {ws}
        /\ sent' = [NoSends EXCEPT ![ws] =
                        IF session # NoSession
                        THEN <<StateMsg(sanitizeSession(session, Undefined))>>
                        ELSE <<>>]
        /\ alarm' = t + hibernationTimeout
        /\ lastOp' = Op("connect", FALSE, TRUE)
        /\ UNCHANGED <<session, tokenCount, taskCount, sessionsMap>>
        /\ response' = NoResponse
        /\ UNCHANGED serialVars
        /\ UNCHANGED edgeVars

\* webSocketMessage with a message that parses to the action a
HandleAction(ws, a, t) ==
    IF a.type = "PING"
    THEN /\ sent' = [NoSends EXCEPT ![ws] = <<PongMsg>>]
         /\ lastOp' = Op("PING", FALSE, FALSE)
         /\ UNCHANGED <<session, tokenCount, taskCount, sockets, sessionsMap>>
    ELSE IF session = NoSession
    THEN /\ sent' = [NoSends EXCEPT ![ws] = NotFoundNotice]
         /\ sockets' = sockets \ {ws}
         /\ lastOp' = Op("not_found", FALSE, FALSE)
         /\ UNCHANGED <<session, tokenCount, taskCount, sessionsMap>>
    ELSE LET nextState == applyAction(session, a, t, tokenCount + 1, taskCount + 1) IN
         IF nextState = Thrown \/ ~Storable(nextState)
         THEN /\ sent' = [NoSends EXCEPT ![ws] = <<ErrorMsg("Invalid action")>>]
              /\ lastOp' = Op("error", FALSE, FALSE)
              /\ UNCHANGED <<session, tokenCount, taskCount, sockets, sessionsMap>>
         ELSE /\ nextState.host.hostToken # session.host.hostToken => tokenCount < MaxTokens
              /\ Len(nextState.tasks) # Len(session.tasks) => taskCount < MaxTasks
              /\ nextState.voting.endsAt <= MaxEndsAt
              /\ session' = nextState
              /\ tokenCount' = IF nextState.host.hostToken # session.host.hostToken
                                THEN tokenCount + 1 ELSE tokenCount
              /\ taskCount' = IF Len(nextState.tasks) # Len(session.tasks)
                               THEN taskCount + 1 ELSE taskCount
              /\ sessionsMap' = IF a.type = "join" /\ Has(a, "name") /\ IsTruthy(a.name)
                                 THEN Put(sessionsMap, ws, a.name) ELSE sessionsMap
              /\ sent' = broadcast(nextState, sockets, sessionsMap')
              /\ lastOp' = Outcome(session, a, nextState, t)
              /\ UNCHANGED sockets

\* the actions the clients of the room send
ClientActions ==
    {[type |-> "PING"]}
    \cup {[type |-> "join", name |-> n, role |-> "voter"] : n \in {NameA, NameB}}
    \cup {[type |-> "transfer_host", name |-> NameB, hostToken |-> tk] : tk \in 1..tokenCount}
    \cup {[type |-> "end_session", hostToken |-> tk] : tk \in 1..tokenCount}

\* webSocketMessage with one of the given actions: the alarm is re-armed
\* before the message is looked at
Message(actions) ==
    \E ws \in sockets, a \in actions, t \in Readings :
        /\ now' = t
        /\ alarm' = t + hibernationTimeout
        /\ HandleAction(ws, a, t)
        /\ UNCHANGED accepted
        /\ response' = NoResponse
        /\ UNCHANGED serialVars
        /\ UNCHANGED edgeVars

WebSocketMessage == Message(ClientActions)

\* strings that are no action envelope: a text that is no JSON ("hello"),
\* the JSON text null, and a JSON text that is no object with a type (5)
Payloads == {"text", "null", "number"}

\* whether webSocketMessage ends in its catch: JSON.parse throws for a text
\* that is no JSON, and reading .type of null is a TypeError; reading .type
\* of a number gives undefined and throws nothing
MessageThrows(payload) == payload \in {"text", "null"}

\* the action the reducer is handed when the message parsed to a value
\* that has no type: no case of its switch matches
NoEnvelope == [type |-> "unknown"]

\* webSocketMessage with a string that is no action envelope
MalformedMessage ==
    \E ws \in sockets, payload \in Payloads, t \in Readings :
        /\ now' = t
        /\ alarm' = t + hibernationTimeout
        /\ IF MessageThrows(payload)
           THEN /\ sent' = [NoSends EXCEPT ![ws] = <<ErrorMsg("Invalid action")>>]
                /\ lastOp' = Op("error", FALSE, FALSE)
                /\ UNCHANGED <<session, sockets>>
           ELSE IF session = NoSession
           THEN /\ sent' = [NoSends EXCEPT ![ws] = NotFoundNotice]
                /\ sockets' = sockets \ {ws}
                /\ lastOp' = Op("not_found", FALSE, FALSE)
                /\ UNCHANGED session
           ELSE LET nextState == applyAction(session, NoEnvelope, t,
                                             tokenCount + 1, taskCount + 1) IN
                /\ session' = nextState
                /\ sent' = broadcast(nextState, sockets, sessionsMap)
                /\ lastOp' = Op("no_envelope", FALSE, FALSE)
                /\ UNCHANGED sockets
        /\ UNCHANGED <<tokenCount, taskCount, sessionsMap, accepted>>
        /\ response' = NoResponse
        /\ UNCHANGED serialVars
        /\ UNCHANGED edgeVars

WebSocketClose_AlwaysRearms ==
    \E ws \in sockets, t \in Readings :
        /\ now' = t
        /\ sockets' = sockets \ {ws}
        /\ sessionsMap' = Delete(sessionsMap, ws)
        /\ alarm' = t + hibernationTimeout
        /\ sent' = NoSends
        /\ lastOp' = Op("close", FALSE, TRUE)
        /\ UNCHANGED <<session, tokenCount, taskCount, accepted>>
        /\ response' = NoResponse
        /\ UNCHANGED serialVars
        /\ UNCHANGED edgeVars

\* webSocketClose: the name association of the connection is dropped and
\* the alarm re-armed when no connection is left
WebSocketClose ==
    \E ws \in sockets, t \in Readings :
        /\ now' = t
        /\ sockets' = sockets \ {ws}
        /\ sessionsMap' = Delete(sessionsMap, ws)
        /\ alarm' = IF sockets' = {} THEN t + hibernationTimeout ELSE alarm
        /\ sent' = NoSends
        /\ lastOp' = Op("close", FALSE, TRUE)
        /\ UNCHANGED <<session, tokenCount, taskCount, accepted>>
        /\ response' = NoResponse
        /\ UNCHANGED serialVars
        /\ UNCHANGED edgeVars

\* webSocketError: the error is logged, nothing else
WebSocketError ==
    \E ws \in sockets :
        /\ sent' = NoSends
        /\ lastOp' = Op("socket_error", FALSE, FALSE)
        /\ response' = NoResponse
        /\ UNCHANGED <<session, now, tokenCount, taskCount, sockets, sessionsMap, accepted, alarm>>
        /\ UNCHANGED serialVars
        /\ UNCHANGED edgeVars

Next ==
    \/ InitRequest
    \/ Connect
    \/ WebSocketMessage
    \/ MalformedMessage
    \/ WebSocketClose
    \/ WebSocketError

Spec == Init /\ [][Next]_vars

----------------------------------------------------------------------------
(* Lifecycle timers: GameRoom.alarm and terminateSession. In these          *)
(* specifications time passes by Elapse. The present stays at the reading   *)
(* `now` and Elapse moves every stored instant into the past, which keeps   *)
(* every difference the code computes (Date.now() minus updatedAt, the      *)
(* alarm time minus Date.now()); an instant further back than Horizon is    *)
(* kept at 0, still older than every threshold. createdAt, which no handler *)
(* reads, stays as written.                                                 *)

Horizon == sessionInactivityTimeout + hibernationTimeout
HalfWindow == hibernationTimeout \div 2

\* the instant as seen d seconds later
Earlier(instant, d) == IF instant = NullNum THEN NullNum
                       ELSE IF instant < d THEN 0 ELSE instant - d

\* the stored session as seen d seconds later
Aged(s, d) ==
    IF s = NoSession THEN s
    ELSE [s EXCEPT !.updatedAt = Earlier(@, d),
                   !.voting.endsAt = Earlier(@, d)]

\* d seconds pass; a due alarm runs before more time passes
Elapse ==
    /\ alarm = NullNum \/ alarm > now
    /\ \E d \in {HalfWindow, hibernationTimeout} :
        /\ session' = Aged(session, d)
        /\ alarm' = Earlier(alarm, d)
    /\ sent' = NoSends
    /\ lastOp' = Op("elapse", FALSE, FALSE)
    /\ response' = NoResponse
    /\ UNCHANGED <<now, tokenCount, taskCount, sockets, sessionsMap, accepted>>
    /\ UNCHANGED serialVars
    /\ UNCHANGED edgeVars

\* alarm that deletes an expired session although observers are connected
alarmVerdict_IgnoresConnections(s, conns, t) ==
    IF s = NoSession THEN "Session expired"
    ELSE IF t - s.updatedAt > sessionInactivityTimeout
         THEN "Session expired due to inactivity"
    ELSE IF s.status = "ended" /\ t - s.updatedAt > hibernationTimeout
         THEN "Session ended"
    ELSE "rearm"

\* what alarm() decides: the reason it terminates the session with, or
\* "rearm" when it sets another alarm
alarmVerdict(s, conns, t) ==
    IF s = NoSession THEN "Session expired"
    ELSE IF conns = {} /\ t - s.updatedAt > sessionInactivityTimeout
         THEN "Session expired due to inactivity"
    ELSE IF s.status = "ended" /\ t - s.updatedAt > hibernationTimeout
         THEN "Session ended"
    ELSE "rearm"

\* terminateSession(reason): ws.close(1000, reason) on every connection
terminateSession(conns, reason) ==
    [ws \in 1..MaxSockets |-> IF ws \in conns THEN <<CloseMsg(1000, reason)>> ELSE <<>>]

\* alarm handler that leaves no alarm behind when it keeps the room
Alarm_NoRearm ==
    /\ alarm # NullNum /\ alarm <= now
    /\ LET verdict == alarmVerdict(session, sockets, now) IN
       IF verdict = "rearm"
       THEN /\ alarm' = NullNum
            /\ sent' = NoSends
            /\ lastOp' = Op("rearmed", FALSE, FALSE)
            /\ UNCHANGED <<session, sockets>>
       ELSE /\ sent' = terminateSession(sockets, verdict)
            /\ sockets' = {}
            /\ session' = NoSession
            /\ alarm' = NullNum
            /\ lastOp' = Op("destroyed", FALSE, TRUE)
    /\ response' = NoResponse
    /\ UNCHANGED <<now, tokenCount, taskCount, sessionsMap, accepted>>
    /\ UNCHANGED serialVars
    /\ UNCHANGED edgeVars

\* the alarm handler, run by the runtime when the armed time is reached
Alarm ==
    /\ alarm # NullNum /\ alarm <= now
    /\ LET verdict == alarmVerdict(session, sockets, now) IN
       IF verdict = "rearm"
       THEN /\ alarm' = now + hibernationTimeout
            /\ sent' = NoSends
            /\ lastOp' = Op("rearmed", FALSE, FALSE)
            /\ UNCHANGED <<session, sockets>>
       ELSE /\ sent' = terminateSession(sockets, verdict)
            /\ sockets' = {}
            /\ session' = NoSession          \* storage.deleteAll()
            /\ alarm' = NullNum
            /\ lastOp' = Op("destroyed", FALSE, TRUE)
    /\ response' = NoResponse
    /\ UNCHANGED <<now, tokenCount, taskCount, sessionsMap, accepted>>
    /\ UNCHANGED serialVars
    /\ UNCHANGED edgeVars

\* what the observers of a room send while its timers run
TimerActions ==
    {[type |-> "PING"]}
    \cup {[type |-> "end_session", hostToken |-> tk] : tk \in 1..tokenCount}

\* a room just created by host A, or no room at all
InitAlarm ==
    /\ now = Horizon
    /\ \/ /\ session = createInitialSession(1, NameA, "open", Horizon, 1)
          /\ tokenCount = 1
          /\ alarm = Horizon + hibernationTimeout
       \/ /\ session = NoSession
          /\ tokenCount = 0
          /\ alarm = NullNum
    /\ taskCount = 0
    /\ sockets = {}
    /\ sessionsMap = EmptyObj
    /\ accepted = 0
    /\ sent = NoSends
    /\ lastOp = Op("init", FALSE, TRUE)
    /\ SerialIdle
    /\ EdgeIdle
    /\ response = NoResponse

NextAlarm ==
    \/ Elapse
    \/ Alarm
    \/ Connect
    \/ Message(TimerActions)
    \/ WebSocketClose

SpecAlarm == InitAlarm /\ [][NextAlarm]_vars

\* the observers of a room to which no action is applied once it has ended:
\* they go on sending the keep-alive
QuietActions ==
    {[type |-> "PING"]}
    \cup IF session # NoSession /\ session.status = "active"
         THEN {[type |-> "end_session", hostToken |-> tk] : tk \in 1..tokenCount}
         ELSE {}

NextQuiet ==
    \/ Elapse
    \/ Alarm
    \/ Connect
    \/ Message(QuietActions)
    \/ WebSocketClose

\* time goes on, and the runtime runs an alarm that is due
SpecQuiet == InitAlarm /\ [][NextQuiet]_vars /\ WF_vars(Elapse) /\ WF_vars(Alarm)

----------------------------------------------------------------------------
(* Room Coordinator, handler by handler: fetch and webSocketMessage as the  *)
(* runs of code between their awaits. Every await in them is an await of a  *)
(* storage operation (get, put, setAlarm), and the runtime delivers no      *)
(* event to the object while a storage operation is awaited.                *)

\* the connection's user: connection 1 is B's, every other one C's
GuestOf(ws) == IF ws = 1 THEN NameB ELSE NameC

\* add_task whose description is a number
NumericDescription ==
    [type |-> "add_task", title |-> TitleT, actor |-> NameA, description |-> NumberValue]

\* what the client behind a connection sends: its own join, a join of B as
\* observer (the earlier of two joins of one name wins), a throwing action
SerialMessages(ws) ==
    {[type |-> "join", name |-> GuestOf(ws), role |-> "voter"],
     [type |-> "join", name |-> NameB, role |-> "observer"],
     NumericDescription}

ConnectEvent == [kind |-> "connect"]
MessageEvent(ws, a) == [kind |-> "message", ws |-> ws, a |-> a]

\* a handler invocation waiting at the await pc
Handler(kind, ws, a, pc, loaded, nextState, k) ==
    [kind |-> kind, ws |-> ws, a |-> a, pc |-> pc, loaded |-> loaded,
     nextState |-> nextState, k |-> k]

\* handlers without the i-th
RemoveAt(seq, i) == [j \in 1..(Len(seq) - 1) |-> IF j < i THEN seq[j] ELSE seq[j + 1]]

\* the await at which a fetch or webSocketMessage invocation waits is one of
\* state.storage: setAlarm (244), get (254, 222), put (263), setAlarm (230)
\* ("load" stands for a session loaded from somewhere other than storage)
AwaitsStorage_ExternalLoad(h) == h.pc \in {"setAlarm", "put", "setAlarmAfter"}

AwaitsStorage(h) == h.pc \in {"setAlarm", "get", "put", "setAlarmAfter"}

\* the runtime's input gate: closed while any invocation awaits storage
InputGateOpen == \A i \in 1..Len(handlers) : ~AwaitsStorage(handlers[i])

\* the state the room must hold once a is handled after everything before it
ExpectedAfter(a) ==
    IF expected = NoSession THEN expected
    ELSE LET r == applyAction(expected, a, now, tokenCount + 1, taskCount + 1) IN
         IF r = Thrown THEN expected
         ELSE IF ~Storable(r) THEN expected
         ELSE r

\* a WebSocket message reaches the room
Arrive ==
    /\ msgCount < MaxMessages
    /\ \E ws \in sockets : \E a \in SerialMessages(ws) :
        /\ inbox' = Append(inbox, MessageEvent(ws, a))
        /\ expected' = ExpectedAfter(a)
    /\ msgCount' = msgCount + 1
    /\ sent' = NoSends
    /\ lastOp' = Op("arrive", FALSE, FALSE)
    /\ UNCHANGED <<session, now, tokenCount, taskCount, sockets, sessionsMap, accepted, alarm,
                   handlers, putCount, delivered>>
    /\ UNCHANGED response
    /\ UNCHANGED edgeVars

\* a WebSocket upgrade request reaches the room
ArriveConnect ==
    /\ accepted + Cardinality({i \in 1..Len(inbox) : inbox[i].kind = "connect"}) < MaxSockets
    /\ inbox' = Append(inbox, ConnectEvent)
    /\ sent' = NoSends
    /\ lastOp' = Op("arrive", FALSE, FALSE)
    /\ UNCHANGED <<session, now, tokenCount, taskCount, sockets, sessionsMap, accepted, alarm,
                   handlers, msgCount, putCount, expected, delivered>>
    /\ UNCHANGED response
    /\ UNCHANGED edgeVars

\* the runtime hands the oldest waiting event to its handler, which runs up
\* to its first await
Deliver ==
    /\ inbox # <<>>
    /\ InputGateOpen
    /\ inbox' = Tail(inbox)
    /\ sent' = NoSends
    /\ lastOp' = Op("deliver", FALSE, FALSE)
    /\ IF Head(inbox).kind = "connect"
       THEN \* fetch: acceptWebSocket(server); await storage.get("session")
            LET ws == accepted + 1 IN
            /\ accepted' = ws
            /\ sockets' = sockets \cup {ws}
            /\ handlers' = Append(handlers, Handler("connect", ws, [type |-> "connect"],
                                                    "get", session, NoSession, putCount))
            /\ UNCHANGED alarm
       ELSE \* webSocketMessage: await storage.setAlarm(...)
            /\ alarm' = now + hibernationTimeout
            /\ handlers' = Append(handlers, Handler("message", Head(inbox).ws, Head(inbox).a,
                                                    "setAlarm", NoSession, NoSession, 0))
            /\ UNCHANGED <<accepted, sockets>>
    /\ UNCHANGED <<session, now, tokenCount, taskCount, sessionsMap,
                   msgCount, putCount, expected, delivered>>
    /\ UNCHANGED response
    /\ UNCHANGED edgeVars

ConnectLoaded_SendsNothing(i) ==
    /\ handlers[i].kind = "connect" /\ handlers[i].pc = "get"
    /\ sent' = NoSends
    /\ alarm' = now + hibernationTimeout
    /\ handlers' = [handlers EXCEPT ![i].pc = "setAlarmAfter"]
    /\ lastOp' = Op("connected", FALSE, FALSE)
    /\ UNCHANGED <<session, now, tokenCount, taskCount, sockets, sessionsMap, accepted,
                   inbox, msgCount, putCount, expected, delivered>>
    /\ UNCHANGED response
    /\ UNCHANGED edgeVars

\* fetch after storage.get: the on-connect projection, then await setAlarm
ConnectLoaded(i) ==
    LET h == handlers[i] IN
    /\ h.kind = "connect" /\ h.pc = "get"
    /\ IF h.loaded # NoSession
       THEN /\ sent' = [NoSends EXCEPT ![h.ws] = <<StateMsg(sanitizeSession(h.loaded, Undefined))>>]
            /\ delivered' = [delivered EXCEPT ![h.ws] =
                                Append(@, [kind |-> "connect", k |-> h.k])]
       ELSE /\ sent' = NoSends
            /\ UNCHANGED delivered
    /\ alarm' = now + hibernationTimeout
    /\ handlers' = [handlers EXCEPT ![i].pc = "setAlarmAfter"]
    /\ lastOp' = Op("connect", FALSE, TRUE)
    /\ UNCHANGED <<session, now, tokenCount, taskCount, sockets, sessionsMap, accepted,
                   inbox, msgCount, putCount, expected>>
    /\ UNCHANGED response
    /\ UNCHANGED edgeVars

\* fetch after the last setAlarm: the 101 response
ConnectDone(i) ==
    /\ handlers[i].kind = "connect" /\ handlers[i].pc = "setAlarmAfter"
    /\ handlers' = RemoveAt(handlers, i)
    /\ sent' = NoSends
    /\ lastOp' = Op("connected", FALSE, FALSE)
    /\ UNCHANGED <<session, now, tokenCount, taskCount, sockets, sessionsMap, accepted, alarm,
                   inbox, msgCount, putCount, expected, delivered>>
    /\ UNCHANGED response
    /\ UNCHANGED edgeVars

\* webSocketMessage after setAlarm: JSON.parse, the PING reply, or
\* await storage.get("session")
MessageParsed(i) ==
    LET h == handlers[i] IN
    /\ h.kind = "message" /\ h.pc = "setAlarm"
    /\ IF h.a.type = "PING"
       THEN /\ sent' = [NoSends EXCEPT ![h.ws] = <<PongMsg>>]
            /\ handlers' = RemoveAt(handlers, i)
            /\ lastOp' = Op("PING", FALSE, FALSE)
       ELSE /\ sent' = NoSends
            /\ handlers' = [handlers EXCEPT ![i].pc = "get", ![i].loaded = session]
            /\ lastOp' = Op("parsed", FALSE, FALSE)
    /\ UNCHANGED <<session, now, tokenCount, taskCount, sockets, sessionsMap, accepted, alarm,
                   inbox, msgCount, putCount, expected, delivered>>
    /\ UNCHANGED response
    /\ UNCHANGED edgeVars

\* webSocketMessage after storage.get: applyAction on the session read, then
\* await storage.put("session", nextState); an exception goes to the catch
MessageLoaded(i) ==
    LET h == handlers[i] IN
    /\ h.kind = "message" /\ h.pc = "get"
    /\ IF h.loaded = NoSession
       THEN /\ sent' = [NoSends EXCEPT ![h.ws] = NotFoundNotice]
            /\ sockets' = sockets \ {h.ws}
            /\ handlers' = RemoveAt(handlers, i)
            /\ lastOp' = Op("not_found", FALSE, FALSE)
            /\ UNCHANGED <<session, tokenCount, taskCount, putCount>>
       ELSE LET nextState == applyAction(h.loaded, h.a, now, tokenCount + 1, taskCount + 1) IN
            IF nextState = Thrown \/ ~Storable(nextState)
            THEN /\ sent' = [NoSends EXCEPT ![h.ws] = <<ErrorMsg("Invalid action")>>]
                 /\ handlers' = RemoveAt(handlers, i)
                 /\ lastOp' = Op(IF nextState = Thrown THEN "thrown" ELSE "error", FALSE, FALSE)
                 /\ UNCHANGED <<session, tokenCount, taskCount, putCount, sockets>>
            ELSE /\ nextState.host.hostToken # h.loaded.host.hostToken => tokenCount < MaxTokens
                 /\ Len(nextState.tasks) # Len(h.loaded.tasks) => taskCount < MaxTasks
                 /\ session' = nextState
                 /\ tokenCount' = IF nextState.host.hostToken # h.loaded.host.hostToken
                                   THEN tokenCount + 1 ELSE tokenCount
                 /\ taskCount' = IF Len(nextState.tasks) # Len(h.loaded.tasks)
                                  THEN taskCount + 1 ELSE taskCount
                 /\ putCount' = putCount + 1
                 /\ handlers' = [handlers EXCEPT ![i].pc = "put",
                                                 ![i].nextState = nextState,
                                                 ![i].k = putCount + 1]
                 /\ sent' = NoSends
                 /\ lastOp' = Op("applied", FALSE, TRUE)
                 /\ UNCHANGED sockets
    /\ UNCHANGED <<now, sessionsMap, accepted, alarm, inbox, msgCount, expected, delivered>>
    /\ UNCHANGED response
    /\ UNCHANGED edgeVars

\* webSocketMessage after storage.put: the name of a join is remembered and
\* nextState is broadcast
MessagePersisted(i) ==
    LET h == handlers[i] IN
    /\ h.kind = "message" /\ h.pc = "put"
    /\ sessionsMap' = IF h.a.type = "join" /\ Has(h.a, "name") /\ IsTruthy(h.a.name)
                       THEN Put(sessionsMap, h.ws, h.a.name) ELSE sessionsMap
    /\ sent' = broadcast(h.nextState, sockets, sessionsMap')
    /\ delivered' = [ws \in 1..MaxSockets |->
                        IF sent'[ws] # <<>>
                        THEN Append(delivered[ws], [kind |-> "broadcast", k |-> h.k])
                        ELSE delivered[ws]]
    /\ handlers' = RemoveAt(handlers, i)
    /\ lastOp' = Op("broadcast", FALSE, TRUE)
    /\ UNCHANGED <<session, now, tokenCount, taskCount, sockets, accepted, alarm,
                   inbox, msgCount, putCount, expected>>
    /\ UNCHANGED response
    /\ UNCHANGED edgeVars

\* a room created by host A in open mode; the clock stands still, the order
\* of the handlers is what this specification is about
InitSerial ==
    /\ session = createInitialSession(1, NameA, "open", 0, 1)
    /\ now = 0
    /\ tokenCount = 1
    /\ taskCount = 0
    /\ sockets = {}
    /\ sessionsMap = EmptyObj
    /\ accepted = 0
    /\ sent = NoSends
    /\ alarm = hibernationTimeout
    /\ lastOp = Op("init", FALSE, TRUE)
    /\ SerialIdle
    /\ EdgeIdle
    /\ response = NoResponse

NextSerial ==
    \/ Arrive
    \/ ArriveConnect
    \/ Deliver
    \/ \E i \in 1..Len(handlers) : ConnectLoaded(i)
    \/ \E i \in 1..Len(handlers) : ConnectDone(i)
    \/ \E i \in 1..Len(handlers) : MessageParsed(i)
    \/ \E i \in 1..Len(handlers) : MessageLoaded(i)
    \/ \E i \in 1..Len(handlers) : MessagePersisted(i)

SpecSerial == InitSerial /\ [][NextSerial]_vars

----------------------------------------------------------------------------
(* Inputs the properties quantify over: every state the model reaches is    *)
(* tried against each of them                                               *)

AnyNames == {NameA, NameB, NameC} \cup ObjectProtoKeys
AnyActors == AnyNames \cup {<<>>, Undefined}
AnyRequesters == {NameA, NameB, NameC, Undefined}
AnyValues == deckValues \cup {NotACard, VotedMarker, <<>>}
AnyTokens == 0..(MaxTokens + 1)
Times == now..MaxNow

\* the state s with nothing but the timestamp changed
Touched(s, t) == [s EXCEPT !.updatedAt = t]

\* applyAction on the stored session
Result(a, t) == applyAction(session, a, t, tokenCount + 1, taskCount + 1)

ActiveIndex == FindTask(session.tasks, session.activeTaskId)

----------------------------------------------------------------------------
(* C2: cast_vote changes a vote map only when the room is active, the round *)
(* is open, activeTaskId names an existing task, the actor is a participant *)
(* with role voter and the value is a deck token; then it sets exactly the  *)
(* actor's entry of the active task. In every other combination the state   *)
(* is unchanged except updatedAt.                                           *)

VoteAllowed(ac, v) ==
    /\ session.status = "active"
    /\ session.voting.status = "open"
    /\ ActiveIndex # 0
    /\ ac \in DOMAIN session.participants
    /\ session.participants[ac].role = "voter"
    /\ v \in deckValues

----------------------------------------------------------------------------
(* C4: vote masking is non-interfering. With the room active and the round  *)
(* open or closed, replacing the value a participant B cast on the active   *)
(* task by any other deck value changes no projection computed for a        *)
(* requester other than B, and B's entry there is the marker "voted".       *)

MaskedRound ==
    /\ session # NoSession
    /\ session.status = "active"
    /\ session.voting.status \in {"open", "closed"}
    /\ ActiveIndex # 0

C4_MaskingNonInterference ==
    MaskedRound =>
        \A b \in DOMAIN session.tasks[ActiveIndex].votes, v2 \in deckValues :
            LET other == [session EXCEPT !.tasks[ActiveIndex].votes[b] = v2] IN
            \A r \in AnyRequesters \ {b} :
                /\ sanitizeSession(session, r) = sanitizeSession(other, r)
                /\ sanitizeSession(session, r).tasks[ActiveIndex].votes[b] = VotedMarker

C4_Witness ==
    /\ MaskedRound
    /\ session.voting.status = "closed"
    /\ DOMAIN session.tasks[ActiveIndex].votes = {NameA, NameB}

----------------------------------------------------------------------------
(* C5: with the round open and the room active, the projection for a        *)
(* requester shows the requester's own vote on the active task literally    *)
(* and every other entry as "voted"; a requester with no name sees every    *)
(* entry as "voted"; every projection has the same names in the vote map.   *)

OpenRound ==
    /\ session # NoSession
    /\ session.status = "active"
    /\ session.voting.status = "open"
    /\ ActiveIndex # 0

C5_OwnVoteVisible ==
    OpenRound =>
        LET votes == session.tasks[ActiveIndex].votes IN
        \A r \in AnyRequesters :
            LET shown == sanitizeSession(session, r).tasks[ActiveIndex].votes IN
            /\ DOMAIN shown = DOMAIN votes
            /\ \A n \in DOMAIN votes :
                  shown[n] = IF r # Undefined /\ n = r THEN votes[n] ELSE VotedMarker

C5_Witness ==
    /\ OpenRound
    /\ DOMAIN session.tasks[ActiveIndex].votes = {NameA, NameB}
    /\ lastOp = Op("cast_vote", FALSE, TRUE)

----------------------------------------------------------------------------
(* C6: for a task that has votes, every requester sees every vote literally *)
(* exactly when the round is revealed, or the room is ended, or the task is *)
(* not the active task, or the task is the active task and the round is     *)
(* idle; in all other cases a requester sees only its own entry literally.  *)

RevealAll(i) ==
    \/ session.voting.status = "revealed"
    \/ session.status = "ended"
    \/ session.tasks[i].id # session.activeTaskId
    \/ (session.tasks[i].id = session.activeTaskId /\ session.voting.status = "idle")

AllLiteral(i) ==
    \A r \in AnyRequesters :
        sanitizeSession(session, r).tasks[i].votes = session.tasks[i].votes

OwnLiteral(i) ==
    \A r \in AnyRequesters :
        LET shown == sanitizeSession(session, r).tasks[i].votes IN
        /\ DOMAIN shown = DOMAIN session.tasks[i].votes
        /\ \A n \in DOMAIN shown :
              shown[n] = IF n = r THEN session.tasks[i].votes[n] ELSE VotedMarker

C6_RevealRule ==
    session # NoSession =>
        \A i \in 1..Len(session.tasks) :
            DOMAIN session.tasks[i].votes # {} =>
                /\ AllLiteral(i) <=> RevealAll(i)
                /\ ~RevealAll(i) => OwnLiteral(i)

\* a finished task shown literally beside an active task that is masked
C6_Witness ==
    /\ session # NoSession
    /\ Len(session.tasks) = 2
    /\ \E i, j \in 1..2 :
          /\ i # j
          /\ session.tasks[j].id = session.activeTaskId
          /\ DOMAIN session.tasks[i].votes # {}
          /\ DOMAIN session.tasks[j].votes # {}
          /\ RevealAll(i) /\ AllLiteral(i)
          /\ ~RevealAll(j) /\ ~AllLiteral(j)

----------------------------------------------------------------------------
(* C10: after an authorized kick(name) with name different from the host's  *)
(* name, name is absent from participants, from every task's vote map and   *)
(* from joinRequests, and no other participant, vote or join request is     *)
(* removed.                                                                 *)

Without(obj, key) == [k \in DOMAIN obj \ {key} |-> obj[k]]

C10_KickCascade ==
    session # NoSession =>
        \A n \in AnyNames \ {session.host.name}, t \in Times :
            LET s2 == Result([type |-> "kick", name |-> n,
                              hostToken |-> session.host.hostToken], t) IN
            /\ s2.participants = Without(session.participants, n)
            /\ s2.joinRequests = Without(session.joinRequests, n)
            /\ Len(s2.tasks) = Len(session.tasks)
            /\ \A i \in 1..Len(session.tasks) :
                  s2.tasks[i] = [session.tasks[i] EXCEPT !.votes = Without(@, n)]
            /\ s2 = [Touched(session, t) EXCEPT !.participants = s2.participants,
                                                 !.joinRequests = s2.joinRequests,
                                                 !.tasks = s2.tasks]

\* B was kicked while A's vote stayed
C10_Witness ==
    /\ session # NoSession
    /\ lastOp = Op("kick", TRUE, TRUE)
    /\ NameB \notin DOMAIN session.participants
    /\ \E i \in 1..Len(session.tasks) : DOMAIN session.tasks[i].votes = {NameA}

----------------------------------------------------------------------------
(* C1: every host-restricted action kind (and add_task in a closed room)    *)
(* applied with a hostToken that is absent or differs from the room's       *)
(* current host secret returns the input state with only updatedAt changed. *)

AnyTitles == {TitleT, <<>>}
AnyTaskIds == 0..(MaxTasks + 1)
AnyDurations == {0 - 1, 0, 60, MAX_DURATION, MAX_DURATION + 1}
AnyAmounts == {MIN_ADD_SECONDS - 1, MIN_ADD_SECONDS, MAX_ADD_SECONDS, MAX_ADD_SECONDS + 1}
AnyEstimates == {Five, <<>>}

\* applyAction(s, a) changes nothing but the timestamp
Absorbed(s, a, t) == applyAction(s, a, t, tokenCount + 1, taskCount + 1) = Touched(s, t)

\* no host-restricted action carrying tk (none when tk is NoToken) changes s
AllDenied(s, tk, t) ==
    /\ \A n \in AnyNames :
          /\ Absorbed(s, WithToken([type |-> "approve_join", name |-> n], tk), t)
          /\ Absorbed(s, WithToken([type |-> "reject_join", name |-> n], tk), t)
          /\ Absorbed(s, WithToken([type |-> "kick", name |-> n], tk), t)
          /\ Absorbed(s, WithToken([type |-> "transfer_host", name |-> n], tk), t)
          /\ \A r \in Roles :
                Absorbed(s, WithToken([type |-> "set_role", name |-> n, role |-> r], tk), t)
    /\ \A id \in AnyTaskIds :
          /\ Absorbed(s, WithToken([type |-> "select_task", taskId |-> id], tk), t)
          /\ \A e \in AnyEstimates :
                Absorbed(s, WithToken([type |-> "set_final_estimate", taskId |-> id,
                                       estimate |-> e], tk), t)
    /\ \A d \in AnyDurations :
          Absorbed(s, WithToken([type |-> "start_voting", durationSeconds |-> d], tk), t)
    /\ \A sec \in AnyAmounts :
          Absorbed(s, WithToken([type |-> "add_time", seconds |-> sec], tk), t)
    /\ Absorbed(s, WithToken([type |-> "close_voting"], tk), t)
    /\ Absorbed(s, WithToken([type |-> "reveal"], tk), t)
    /\ Absorbed(s, WithToken([type |-> "clear_votes"], tk), t)
    /\ Absorbed(s, WithToken([type |-> "end_session"], tk), t)
    /\ s.sessionMode = "closed" =>
          \A ac \in AnyActors, ti \in AnyTitles :
              Absorbed(s, WithToken(WithActor([type |-> "add_task", title |-> ti], ac), tk), t)

C1_BadTokenNoOp ==
    session # NoSession =>
        \A tk \in AnyTokens \ {session.host.hostToken}, t \in Times :
            AllDenied(session, tk, t)

\* a guest is in the room and a host-restricted action without the host's
\* token has just been absorbed
C1_Witness ==
    /\ session # NoSession
    /\ lastOp = Op("denied", FALSE, FALSE)
    /\ NameB \in DOMAIN session.participants

----------------------------------------------------------------------------
(* C7: after an authorized transfer_host(X) with X a current participant,   *)
(* host.name is X and the host secret is a token never issued before; every *)
(* host-restricted action carrying the previous token is then absorbed, and *)
(* end_session and reveal carrying the new token take effect.               *)

C7_TokenRotation ==
    session # NoSession =>
        \A x \in DOMAIN session.participants, t \in Times :
            LET old == session.host.hostToken
                s2 == Result([type |-> "transfer_host", name |-> x, hostToken |-> old], t)
                new == s2.host.hostToken
            IN /\ s2.host.name = x
               /\ new \notin 0..tokenCount
               /\ s2 = [Touched(session, t) EXCEPT !.host = [name |-> x, hostToken |-> new]]
               /\ AllDenied(s2, old, t)
               /\ requireHost(s2, [type |-> "end_session", hostToken |-> new])
               /\ applyAction(s2, [type |-> "end_session", hostToken |-> new],
                               t, new + 1, taskCount + 1).status = "ended"
               /\ applyAction(s2, [type |-> "reveal", hostToken |-> new],
                               t, new + 1, taskCount + 1).voting.status = "revealed"

\* the host role went from A to B and B's token is the second one issued
C7_Witness ==
    /\ session # NoSession
    /\ lastOp = Op("transfer_host", TRUE, TRUE)
    /\ session.host = [name |-> NameB, hostToken |-> 2]

----------------------------------------------------------------------------
(* C8: in a closed room a join that does not carry the current host token   *)
(* never adds to participants. Original statement: it records the name in   *)
(* joinRequests unless the name is already a participant, in which case     *)
(* nothing but updatedAt changes.                                           *)

LongName == [i \in 1..(MAX_NAME_LENGTH + 1) |-> IF i <= MAX_NAME_LENGTH THEN "y" ELSE "z"]
AnyJoinNames ==
    AnyNames \cup {<<>>, Spaces, <<"<">>, NameBTag, NameBSp, <<" ", "B">>, LongName}

JoinAction(n, r, tk) == WithToken([type |-> "join", name |-> n, role |-> r], tk)

C8_Original ==
    (session # NoSession /\ session.sessionMode = "closed") =>
        \A n \in AnyJoinNames, r \in Roles, t \in Times,
           tk \in AnyTokens \ {session.host.hostToken} :
            LET s2 == Result(JoinAction(n, r, tk), t) IN
            /\ s2.participants = session.participants
            /\ IF n \in DOMAIN session.participants
               THEN s2 = Touched(session, t)
               ELSE n \in DOMAIN s2.joinRequests

(* C8 as amended: the join records the sanitized name (trimmed, cut to 50   *)
(* characters, "<" and ">" removed) with the requested role in joinRequests *)
(* when the name is a non-empty string, the sanitized name is non-empty,    *)
(* participants holds nothing (own or inherited) under the sanitized name   *)
(* and the room has fewer than 50 participants; otherwise nothing but       *)
(* updatedAt changes. participants is unchanged in both cases.              *)

C8_ClosedRoomGating ==
    (session # NoSession /\ session.sessionMode = "closed") =>
        \A n \in AnyJoinNames, r \in Roles, t \in Times,
           tk \in AnyTokens \ {session.host.hostToken} :
            LET s2 == Result(JoinAction(n, r, tk), t)
                clean == StripAngles(Slice(Trim(n), MAX_NAME_LENGTH))
                recorded ==
                    /\ n # <<>>
                    /\ clean # <<>>
                    /\ clean \notin DOMAIN session.participants
                    /\ clean \notin ObjectProtoKeys
                    /\ Cardinality(DOMAIN session.participants) < MAX_PARTICIPANTS
            IN /\ s2.participants = session.participants
               /\ IF recorded
                  THEN s2 = [Touched(session, t) EXCEPT
                                !.joinRequests = Put(@, clean, [role |-> r])]
                  ELSE s2 = Touched(session, t)

\* a request was recorded for B in a closed room
C8_Witness ==
    /\ session # NoSession
    /\ session.sessionMode = "closed"
    /\ lastOp = Op("join", FALSE, TRUE)
    /\ NameB \in DOMAIN session.joinRequests
    /\ NameB \notin DOMAIN session.participants

----------------------------------------------------------------------------
(* C9: for every state and every role, join with a name that is already a   *)
(* key of participants leaves participants unchanged.                       *)

C9_JoinUniqueness ==
    session # NoSession =>
        \A n \in DOMAIN session.participants, r \in Roles, tk \in AnyTokens, t \in Times :
            Result(JoinAction(n, r, tk), t).participants = session.participants

----------------------------------------------------------------------------
(* C3: the host secret appears in a projection only for the host.           *)
(* sanitizeSession(state, requester) keeps host.hostToken only when the     *)
(* requester equals state.host.name (a requester with no name gets no       *)
(* token), and every projection the coordinator delivers to a connection    *)
(* (on connect and in every broadcast) holds the token only if that         *)
(* connection announced the current host's name.                            *)

HoldsToken(projection) == Has(projection.host, "hostToken")

C3_HostSecretOnlyForHost ==
    session # NoSession =>
        /\ \A r \in AnyRequesters :
              HoldsToken(sanitizeSession(session, r)) <=> r = session.host.name
        /\ \A ws \in 1..MaxSockets :
              \A i \in 1..Len(sent[ws]) :
                  (Has(sent[ws][i], "state") /\ HoldsToken(sent[ws][i].state))
                      => NameOf(sessionsMap, ws) = session.host.name

\* the coordinator delivered the host secret to a connection that announced
\* no name, or a name that is not the host's
C3_Leak ==
    /\ session # NoSession
    /\ \E ws \in sockets :
          /\ NameOf(sessionsMap, ws) # session.host.name
          /\ sent[ws] # <<>>
          /\ Has(sent[ws][1], "state")
          /\ HoldsToken(sent[ws][1].state)

----------------------------------------------------------------------------
(* C11: after an authorized set_role(name, observer), name has no entry in  *)
(* any task's vote map, active or not, and the votes of all other           *)
(* participants are unchanged; of a participant only the role changes.      *)

C11_ObserverCascade ==
    session # NoSession =>
        \A n \in AnyNames, t \in Times :
            LET s2 == Result([type |-> "set_role", name |-> n, role |-> "observer",
                              hostToken |-> session.host.hostToken], t) IN
            /\ Len(s2.tasks) = Len(session.tasks)
            /\ \A i \in 1..Len(session.tasks) :
                  /\ n \notin DOMAIN s2.tasks[i].votes
                  /\ s2.tasks[i] = [session.tasks[i] EXCEPT !.votes = Without(@, n)]
            /\ s2 = [Touched(session, t) EXCEPT
                        !.tasks = s2.tasks,
                        !.participants =
                            IF n \in DOMAIN @ THEN [@ EXCEPT ![n].role = "observer"] ELSE @]

\* B was made an observer while a task keeps A's vote and none of B's
C11_Witness ==
    /\ session # NoSession
    /\ lastOp = Op("set_role", TRUE, TRUE)
    /\ NameB \in DOMAIN session.participants
    /\ session.participants[NameB].role = "observer"
    /\ Len(session.tasks) = 2
    /\ \A i \in 1..2 : DOMAIN session.tasks[i].votes = {NameA}

----------------------------------------------------------------------------
(* Every kind of action, with fields present, absent and out of range, as   *)
(* the properties below apply them to each reachable state                  *)

NameKinds == {"approve_join", "reject_join", "kick", "transfer_host"}
BareKinds == {"close_voting", "reveal", "clear_votes", "end_session", "unknown"}

AnyBareActions ==
    {[type |-> "join", name |-> n, role |-> r] : n \in AnyNames, r \in Roles}
    \cup {[type |-> k, name |-> n] : k \in NameKinds, n \in AnyNames}
    \cup {[type |-> "set_role", name |-> n, role |-> r] : n \in AnyNames, r \in Roles}
    \cup {[type |-> "select_task", taskId |-> id] : id \in AnyTaskIds}
    \cup {[type |-> "set_final_estimate", taskId |-> id, estimate |-> e] :
             id \in AnyTaskIds, e \in AnyEstimates}
    \cup {[type |-> "start_voting", durationSeconds |-> d] : d \in AnyDurations}
    \cup {[type |-> "add_time", seconds |-> sec] : sec \in AnyAmounts}
    \cup {[type |-> k] : k \in BareKinds}
    \cup {WithActor([type |-> "add_task", title |-> ti], ac) :
             ti \in AnyTitles, ac \in {NameA, NameC, Undefined}}
    \cup {[type |-> "add_task", title |-> TitleT, actor |-> NameA, description |-> TitleT]}
    \cup {WithActor([type |-> "cast_vote", value |-> v], ac) :
             v \in {Five, NotACard}, ac \in AnyActors}

\* actions with a field missing or of the wrong JSON type
AnyPartialActions ==
    {[type |-> "join"], [type |-> "join", name |-> NumberValue, role |-> "voter"],
     [type |-> "kick"], [type |-> "select_task"], [type |-> "start_voting"],
     [type |-> "add_time"], [type |-> "add_task"],
     [type |-> "add_task", title |-> NumberValue, actor |-> NameA],
     [type |-> "add_task", title |-> TitleT, actor |-> NameA, description |-> NumberValue],
     [type |-> "add_task", title |-> TitleT, actor |-> NameA, description |-> Null],
     [type |-> "cast_vote", actor |-> NameA],
     [type |-> "set_role", name |-> NameA]}
    \cup {[type |-> "set_final_estimate", taskId |-> id] : id \in AnyTaskIds}
    \cup {[type |-> "set_final_estimate", taskId |-> id, estimate |-> e] :
             id \in AnyTaskIds, e \in {Null, NumberValue}}

\* no token, the host's token, and a token that is not the host's
ThreeTokens == {NoToken, session.host.hostToken, session.host.hostToken + 1}

AnyActions == {WithToken(a, tk) : a \in AnyBareActions, tk \in ThreeTokens}

AnyParseableActions ==
    AnyActions \cup {WithToken(a, tk) : a \in AnyPartialActions, tk \in ThreeTokens}

----------------------------------------------------------------------------
(* C12: the round status changes only along these transitions: idle to open *)
(* by an authorized start_voting, open to closed by an authorized           *)
(* close_voting, open or closed to revealed by an authorized reveal, and    *)
(* any status to idle by an authorized select_task or clear_votes. No       *)
(* action moves the round from idle to closed or revealed, or from revealed *)
(* to closed.                                                               *)

RoundTransition(from, to, a) ==
    /\ requireHost(session, a)
    /\ \/ from = "idle" /\ to = "open" /\ a.type = "start_voting"
       \/ from = "open" /\ to = "closed" /\ a.type = "close_voting"
       \/ from \in {"open", "closed"} /\ to = "revealed" /\ a.type = "reveal"
       \/ to = "idle" /\ a.type \in {"select_task", "clear_votes"}

C12_RoundTransitions ==
    session # NoSession =>
        \A a \in AnyActions, t \in Times :
            LET from == session.voting.status
                to == Result(a, t).voting.status
            IN from # to => RoundTransition(from, to, a)

\* the host closed a round that was never opened: the round is closed and
\* the only task there could be holds no vote
C12_ClosedFromIdle ==
    /\ session # NoSession
    /\ session.voting.status = "closed"
    /\ session.tasks = <<>>

----------------------------------------------------------------------------
(* C13: no single action takes the round from revealed to open. From a      *)
(* revealed round the way back to open leads through the idle state that an *)
(* authorized clear_votes produces, and clear_votes also empties the active *)
(* task's vote map.                                                         *)

C13_NoReopenFromRevealed ==
    (session # NoSession /\ session.voting.status = "revealed") =>
        \A t \in Times :
            /\ \A a \in AnyActions : Result(a, t).voting.status # "open"
            /\ LET s2 == Result([type |-> "clear_votes",
                                 hostToken |-> session.host.hostToken], t) IN
               /\ s2.voting = initialVotingState
               /\ ActiveIndex # 0 => s2.tasks[ActiveIndex].votes = EmptyObj

----------------------------------------------------------------------------
(* C14: the room's lifecycle status is one-way. It changes only from active *)
(* to ended and only by an end_session carrying the current host token; an  *)
(* end_session with that token always ends the room; once the room is ended *)
(* no action makes it active again.                                         *)

C14_LifecycleOneWay ==
    session # NoSession =>
        /\ session.status \in {"active", "ended"}
        /\ \A a \in AnyActions, t \in Times :
              LET s2 == Result(a, t) IN
              /\ s2.status # session.status =>
                    /\ session.status = "active" /\ s2.status = "ended"
                    /\ a.type = "end_session"
                    /\ Has(a, "hostToken") /\ a.hostToken = session.host.hostToken
              /\ (a.type = "end_session" /\ requireHost(session, a)) => s2.status = "ended"
              /\ session.status = "ended" => s2.status = "ended"

\* the room is ended and an action handled after the end took effect
C14_Witness ==
    /\ session # NoSession
    /\ session.status = "ended"
    /\ lastOp = Op("start_voting", TRUE, TRUE)


----------------------------------------------------------------------------
(* C15: messages are handled one at a time in arrival order, so the
   persisted state after a1 then a2 is applyAction(applyAction(s, a1), a2)
   and no update is lost *)

\* C15: at most one handler invocation is in progress, and once every
\* arrived message is handled the persisted session is the fold of
\* applyAction over the messages in their arrival order
C15_SerialHandling ==
    /\ Len(handlers) <= 1
    /\ (inbox = <<>> /\ handlers = <<>>) => session = expected

\* two messages were handled and the second changed what the first left
C15_Witness ==
    /\ putCount = 2
    /\ inbox = <<>> /\ handlers = <<>>
    /\ DOMAIN session.participants = {NameA, NameB, NameC}
    /\ session.participants[NameB].role = "observer"


----------------------------------------------------------------------------
(* C16: every connected observer receives the projections of the
   successive persisted states in the order they were persisted *)

\* C16: what a connection has received after its on-connect projection is
\* one projection per persisted state, numbered consecutively in persist
\* order, up to the latest one once the room is idle; each broadcast carries
\* the projection of the state just persisted for the connection's name
C16_OrderedProjections ==
    /\ \A ws \in sockets :
        LET d == delivered[ws] IN
        /\ \A j \in 2..Len(d) : d[j].kind = "broadcast" /\ d[j].k = d[j - 1].k + 1
        /\ (inbox = <<>> /\ handlers = <<>> /\ d # <<>>) => d[Len(d)].k = putCount
    /\ lastOp.type = "broadcast" =>
        \A ws \in sockets :
            sent[ws] = <<StateMsg(sanitizeSession(session, NameOf(sessionsMap, ws)))>>

\* the first connection saw two successive states, the second joined between
\* them and saw the later one
C16_Witness ==
    /\ lastOp.type = "broadcast"
    /\ Len(delivered[1]) = 3
    /\ Len(delivered[2]) = 2
    /\ delivered[2][2].k = 2


----------------------------------------------------------------------------
(* C17: after every message that reaches applyAction for an existing room,
   every connected observer is sent the projection of the newly persisted
   state for the name it announced *)

\* C17: when a webSocketMessage invocation that called applyAction ends
\* (with the broadcast, or in the catch after applyAction or storage.put
\* threw), every connection has just been sent the projection of the stored
\* session for its announced name
C17_BroadcastAfterEveryMessage ==
    lastOp.type \in {"broadcast", "thrown", "error"} =>
        \A ws \in sockets :
            sent[ws] = <<StateMsg(sanitizeSession(session, NameOf(sessionsMap, ws)))>>

----------------------------------------------------------------------------
(* C18: an observer connecting to a room with persisted state first
   receives one projection of the current state, before any broadcast of an
   action handled after the connection was accepted *)

\* C18: a connection whose fetch is still loading the session has received
\* nothing; any other connection received the on-connect projection first;
\* and that message is the unnamed projection of the stored session
C18_FirstMessageOnConnect ==
    /\ \A ws \in sockets :
        IF \E i \in 1..Len(handlers) :
              handlers[i].kind = "connect" /\ handlers[i].ws = ws /\ handlers[i].pc = "get"
        THEN delivered[ws] = <<>>
        ELSE delivered[ws] # <<>> /\ delivered[ws][1].kind = "connect"
    /\ lastOp.type = "connect" =>
        \E i \in 1..Len(handlers) :
            /\ handlers[i].pc = "setAlarmAfter"
            /\ sent[handlers[i].ws] = <<StateMsg(sanitizeSession(session, Undefined))>>

\* the second connection was accepted after a state had been persisted and
\* has just been sent that state
C18_Witness ==
    /\ lastOp.type = "connect"
    /\ delivered[2] = <<[kind |-> "connect", k |-> 1]>>
    /\ inbox # <<>>


----------------------------------------------------------------------------
(* C19: applyAction is total: for every state and every parseable action,  *)
(* with any of its fields absent or out of range, it returns a state and    *)
(* never throws                                                             *)

\* C19: at every reachable state applyAction returns a state for every
\* action of the universe, the actions with absent or ill-typed fields
\* included, and an action of unknown type changes nothing but updatedAt
C19_ApplyActionTotal ==
    \A a \in AnyParseableActions, t \in Times :
        /\ Result(a, t) # Thrown
        /\ a.type = "unknown" => Result(a, t) = Touched(session, t)

----------------------------------------------------------------------------
(* C20: every applyAction call returns a state whose updatedAt is the       *)
(* current time; with a non-decreasing clock updatedAt never decreases      *)

\* C20: whenever applyAction returns, for an action that takes effect, is
\* rejected or has an unknown type, the result's updatedAt is the time of
\* the call; the stored updatedAt is never ahead of the clock, so the next
\* call cannot lower it
C20_UpdatedAtIsNow ==
    /\ session.updatedAt <= now
    /\ \A a \in AnyParseableActions, t \in Times :
        Result(a, t) # Thrown => Result(a, t).updatedAt = t

\* the clock has advanced and a rejected action has stamped the session
C20_Witness ==
    /\ lastOp = Op("denied", FALSE, FALSE)
    /\ now > 0
    /\ session.updatedAt = now


----------------------------------------------------------------------------
(* The roster: a closed room whose host A admits, changes, removes and      *)
(* hands over to the guest B while votes are cast. The join actions come    *)
(* with and without the host token, and the targets of a transfer include a *)
(* name that only Object.prototype knows.                                   *)

Constructor == <<"c","o","n","s","t","r","u","c","t","o","r">>

InitRoster ==
    /\ session = createInitialSession(1, NameA, "closed", 0, 1)
    /\ now = 0
    /\ tokenCount = 1
    /\ taskCount = 0
    /\ sockets = {}
    /\ sessionsMap = EmptyObj
    /\ accepted = 0
    /\ sent = NoSends
    /\ alarm = NullNum
    /\ lastOp = Op("init", FALSE, TRUE)
    /\ SerialIdle
    /\ EdgeIdle
    /\ response = NoResponse

NextRoster ==
    \/ Join({NameB}, Roles, {NoToken} \cup HostToken)
    \/ ApproveJoin({NameB}, HostToken)
    \/ RejectJoin({NameB}, HostToken)
    \/ SetRole({NameB}, Roles, HostToken)
    \/ Kick({NameA, NameB}, HostToken)
    \/ TransferHost({NameB, Constructor}, HostToken)
    \/ StartVoting({0}, HostToken)
    \/ CastVote({NameA, NameB}, {Five})

SpecRoster == InitRoster /\ [][NextRoster]_vars

----------------------------------------------------------------------------
(* Statistics: calculateStats over a vote map. Numbers with decimals are    *)
(* kept in hundredths (6.5 is 650). The room of this specification is open: *)
(* the host A and the guests B and C vote with a few cards of the deck.     *)

DigitChars == {"0", "1", "2", "3", "4", "5", "6", "7", "8", "9"}

DigitValue(c) ==
    CASE c = "0" -> 0 [] c = "1" -> 1 [] c = "2" -> 2 [] c = "3" -> 3 [] c = "4" -> 4
      [] c = "5" -> 5 [] c = "6" -> 6 [] c = "7" -> 7 [] c = "8" -> 8 [] c = "9" -> 9

\* !Number.isNaN(Number(v)) for a string of digits or any other characters
\* that are no white space: the empty string converts to 0
IsNumber(v) == \A i \in 1..Len(v) : v[i] \in DigitChars

\* Number(v) of a string of digits
RECURSIVE ToNumber(_)
ToNumber(v) == IF v = <<>> THEN 0
               ELSE 10 * ToNumber(SubSeq(v, 1, Len(v) - 1)) + DigitValue(v[Len(v)])

\* numericVotes.reduce((a, b) => a + b, 0) over the names given
RECURSIVE SumVotes(_, _)
SumVotes(votes, names) ==
    IF names = {} THEN 0
    ELSE LET n == CHOOSE x \in names : TRUE
         IN ToNumber(votes[n]) + SumVotes(votes, names \ {n})

\* [...numericVotes].sort((a, b) => a - b) over the names given
RECURSIVE SortVotes(_, _)
SortVotes(votes, names) ==
    IF names = {} THEN <<>>
    ELSE LET n == CHOOSE x \in names :
                      \A y \in names : ToNumber(votes[x]) <= ToNumber(votes[y])
         IN <<ToNumber(votes[n])>> \o SortVotes(votes, names \ {n})

Hundredths_Truncates(num, den) == (100 * num) \div den

\* Number((num / den).toFixed(2)) in hundredths: the nearest hundredth, the
\* larger one of two equally near (the quotients that lie in the middle
\* between two hundredths have a denominator that is a multiple of 8; those
\* of fewer than 40 votes are exact in binary)
Hundredths(num, den) == (200 * num + den) \div (2 * den)

calculateStats(votes) ==
    LET numeric == {n \in DOMAIN votes : IsNumber(votes[n])}
        count == Cardinality(numeric)
        sorted == SortVotes(votes, numeric)
        mid == count \div 2
    IN IF count = 0 THEN [average |-> NullNum, median |-> NullNum]
       ELSE [average |-> Hundredths(SumVotes(votes, numeric), count),
             median |-> IF count % 2 = 0
                        THEN Hundredths(sorted[mid] + sorted[mid + 1], 2)
                        ELSE 100 * sorted[mid + 1]]

StatCards == {<<"1">>, <<"3">>, <<"5">>, <<"8">>, <<"1","3">>, <<"?">>}

InitStats ==
    /\ session = createInitialSession(1, NameA, "open", 0, 1)
    /\ now = 0
    /\ tokenCount = 1
    /\ taskCount = 0
    /\ sockets = {}
    /\ sessionsMap = EmptyObj
    /\ accepted = 0
    /\ sent = NoSends
    /\ alarm = NullNum
    /\ lastOp = Op("init", FALSE, TRUE)
    /\ SerialIdle
    /\ EdgeIdle
    /\ response = NoResponse

NextStats ==
    \/ Join({NameB, NameC}, {"voter"}, {NoToken})
    \/ StartVoting({0}, HostToken)
    \/ CastVote({NameA, NameB, NameC}, StatCards)
    \/ Reveal(HostToken)

SpecStats == InitStats /\ [][NextStats]_vars

----------------------------------------------------------------------------
(* The Worker in front of the rooms: POST /create behind checkRateLimit.    *)
(* Times are Date.now() in milliseconds. Every accepted request makes a     *)
(* room under a fresh random id; `session` is the room made by the last     *)
(* one.                                                                     *)

RATE_LIMIT_WINDOW == 60000
RATE_LIMIT_DEFAULT == 5

MaxDateNow == 120000    \* the last millisecond at which a request arrives

ClientIPs == {"ip1", "ip2"}

\* time passed between two requests
Gaps == {0, RATE_LIMIT_WINDOW - 1, RATE_LIMIT_WINDOW + 1}

\* request bodies: a good one, one without hostName, one whose hostName is
\* blank, one with an unknown sessionMode
CreateBodies ==
    {[hostName |-> NameA, sessionMode |-> "open"],
     [hostName |-> Undefined, sessionMode |-> "open"],
     [hostName |-> Spaces, sessionMode |-> "closed"],
     [hostName |-> NameA, sessionMode |-> "secret"]}

StatusResponse(code) == [status |-> code]

\* the times of the log less than a minute before t
Recent(times, t) == SelectSeq(times, LAMBDA x : x > t - RATE_LIMIT_WINDOW)

\* whether checkRateLimit(ip, limit) at time t returns true
rateLimitPasses(map, ip, limit, t) ==
    \/ ip \notin DOMAIN map
    \/ map[ip].resetAt < t
    \/ map[ip].count < limit

\* rateLimitMap after checkRateLimit(ip, limit) at time t
checkRateLimit(map, ip, limit, t) ==
    IF ip \notin DOMAIN map \/ map[ip].resetAt < t
    THEN Put(map, ip, [count |-> 1, resetAt |-> t + RATE_LIMIT_WINDOW])
    ELSE IF map[ip].count >= limit THEN map
    ELSE Put(map, ip, [count |-> map[ip].count + 1, resetAt |-> map[ip].resetAt])

\* POST /create of the Worker's fetch
CreateRequest ==
    \E ip \in ClientIPs, body \in CreateBodies, gap \in Gaps :
        LET t == dateNow + gap
            passes == rateLimitPasses(rateLimitMap, ip, RATE_LIMIT_DEFAULT, t)
        IN
        /\ t <= MaxDateNow
        /\ dateNow' = t
        /\ rateLimitMap' = checkRateLimit(rateLimitMap, ip, RATE_LIMIT_DEFAULT, t)
        /\ createLog' = LET recent == [c \in DOMAIN createLog |-> Recent(createLog[c], t)]
                        IN IF passes
                           THEN Put(recent, ip,
                                    Append(IF ip \in DOMAIN recent THEN recent[ip] ELSE <<>>, t))
                           ELSE recent
        /\ IF ~passes
           THEN /\ response' = StatusResponse(429)
                /\ lastOp' = Op("create", FALSE, FALSE)
                /\ UNCHANGED <<session, now, tokenCount, alarm>>
           ELSE IF ~IsTruthy(body.hostName) \/ ~IsString(body.hostName)
                   \/ body.sessionMode \notin Modes
           THEN /\ response' = StatusResponse(400)
                /\ lastOp' = Op("create", TRUE, FALSE)
                /\ UNCHANGED <<session, now, tokenCount, alarm>>
           ELSE IF ~isValidName([name |-> body.hostName])
           THEN /\ response' = ErrorResponse
                /\ lastOp' = Op("create", TRUE, FALSE)
                /\ UNCHANGED <<session, now, tokenCount, alarm>>
           ELSE /\ now' = t \div 1000
                /\ session' = createInitialSession(1, body.hostName, body.sessionMode, now', 1)
                /\ tokenCount' = 1
                /\ alarm' = now' + hibernationTimeout
                /\ response' = InitResponse(session')
                /\ lastOp' = Op("create", TRUE, TRUE)
        /\ sent' = NoSends
        /\ UNCHANGED <<taskCount, sockets, sessionsMap, accepted>>
        /\ UNCHANGED serialVars

NextEdge == CreateRequest

SpecEdge == Init /\ [][NextEdge]_vars

----------------------------------------------------------------------------
(* C21: activeTaskId is null or the id of a task in the task list, so at    *)
(* most one task is active; a select_task naming a task id that does not    *)
(* exist changes neither activeTaskId nor the round                         *)

\* C21: in every reachable state activeTaskId is null or the id of exactly
\* one task of the list, and a select_task whose taskId is absent or names
\* no task, with whatever token, returns the state with only updatedAt
\* changed
C21_ActiveTaskExists ==
    /\ \/ session.activeTaskId = NoTask
       \/ Cardinality({i \in 1..Len(session.tasks) :
                          session.tasks[i].id = session.activeTaskId}) = 1
    /\ \A id \in AnyTaskIds, tk \in ThreeTokens, t \in Times :
          FindTask(session.tasks, id) = 0 =>
              Result(WithToken([type |-> "select_task", taskId |-> id], tk), t)
                  = Touched(session, t)
    /\ \A tk \in ThreeTokens, t \in Times :
          Result(WithToken([type |-> "select_task"], tk), t) = Touched(session, t)

\* two tasks exist and the host has just moved the active task to the second
C21_Witness ==
    /\ lastOp = Op("select_task", TRUE, TRUE)
    /\ Len(session.tasks) = 2
    /\ session.activeTaskId = session.tasks[2].id


----------------------------------------------------------------------------
(* C22: a session never has more than MAX_PARTICIPANTS participants, in     *)
(* every state reachable by join, approve_join and the other actions        *)

\* C22: in every reachable state the number of participants is at most
\* MAX_PARTICIPANTS
C22_ParticipantCeiling ==
    Cardinality(DOMAIN session.participants) <= MAX_PARTICIPANTS


----------------------------------------------------------------------------
(* C23: room initialization is idempotent: an init request for a room that  *)
(* already has persisted state returns that state and changes nothing,      *)
(* whatever actions were applied since the first initialization             *)

\* C23: every POST /init step taken while a session is stored leaves the
\* session, the alarm, the connections and their names as they are and
\* answers with the stored session and its host token
C23_InitIdempotent ==
    [][(lastOp'.type = "init" /\ session # NoSession) =>
          /\ session' = session
          /\ alarm' = alarm
          /\ sockets' = sockets
          /\ sessionsMap' = sessionsMap
          /\ tokenCount' = tokenCount
          /\ response' = InitResponse(session)]_vars

\* the room was initialized again after the host role had passed to B: the
\* answer is the stored session with B as host and B's token
C23_Witness ==
    /\ lastOp = Op("init", FALSE, FALSE)
    /\ session # NoSession
    /\ session.host.name = NameB
    /\ NameB \in DOMAIN session.participants
    /\ response = InitResponse(session)


----------------------------------------------------------------------------
(* C24: the alarm destroys a room (closes every connection with code 1000   *)
(* and a reason, then erases all storage) only when no session is stored,   *)
(* or there are no connections and the last update is older than 7 days, or *)
(* the status is ended and the last update is older than 1 hour; otherwise  *)
(* it leaves the state untouched and arms another alarm                     *)

\* the three cases in which the claim lets the alarm destroy the room
MayDestroy ==
    \/ session = NoSession
    \/ sockets = {} /\ now - session.updatedAt > sessionInactivityTimeout
    \/ session.status = "ended" /\ now - session.updatedAt > hibernationTimeout

\* C24: every step that destroys the room is taken in one of the three
\* cases, closes every connection with code 1000 and a reason and leaves no
\* session; every other run of the alarm leaves session and connections as
\* they are and arms the alarm one window ahead; a stored session disappears
\* by no other step; an active room with a connection is never destroyed
C24_AlarmDestroysOnlyWhen ==
    [][/\ lastOp'.type = "destroyed" =>
            /\ MayDestroy
            /\ session' = NoSession
            /\ sockets' = {}
            /\ \A ws \in sockets :
                  /\ Len(sent'[ws]) = 1
                  /\ sent'[ws][1].close = 1000
                  /\ sent'[ws][1].reason # ""
       /\ lastOp'.type = "rearmed" =>
            /\ ~MayDestroy
            /\ session' = session
            /\ sockets' = sockets
            /\ alarm' = now + hibernationTimeout
       /\ (session # NoSession /\ session' = NoSession) => lastOp'.type = "destroyed"
       /\ (session # NoSession /\ session.status = "active" /\ sockets # {}) =>
            session' # NoSession]_vars

\* an ended room was destroyed while a connection remained, which was
\* closed with the reason of that case
C24_Witness ==
    /\ lastOp = Op("destroyed", FALSE, TRUE)
    /\ session = NoSession
    /\ sockets = {}
    /\ sent[1] = <<CloseMsg(1000, "Session ended")>>


----------------------------------------------------------------------------
(* C25: once a room's status is ended and no further action is applied to   *)
(* its state, the room is eventually destroyed after the 1-hour window,     *)
(* regardless of connections remaining, including when the connected        *)
(* observers keep sending keep-alive PING messages                          *)

\* C25: an ended room to which no action is applied any more is eventually
\* destroyed, whatever its observers do short of sending an action
C25_EndedEventuallyDestroyed ==
    (session # NoSession /\ session.status = "ended") ~> (session = NoSession)


----------------------------------------------------------------------------
(* C26: when a message arrives on a connection for a room with no           *)
(* persisted state, the coordinator sends an error notice to that           *)
(* connection only, closes it with code 1000, creates no state and sends    *)
(* nothing to any other connection                                          *)

\* the step answered one connection with the not-found notice, closed it
\* and sent nothing to the others
NotFoundStep ==
    \E ws \in sockets :
        /\ sent'[ws] = <<ErrorMsg("Session not found"), CloseMsg(1000, "Session not found")>>
        /\ sockets' = sockets \ {ws}
        /\ \A other \in sockets \ {ws} : sent'[other] = <<>>

\* C26 as stated: every webSocketMessage step on a room without a stored
\* session, the keep-alive and the unparseable message included, is a
\* not-found step and creates no state
C26_Original ==
    [][(session = NoSession /\ lastOp'.type \in {"PING", "error", "not_found"}) =>
          NotFoundStep /\ session' = NoSession]_vars

\* C26: on a room without a stored session, every webSocketMessage step
\* whose message parses to an action other than the keep-alive PING is a
\* not-found step; no message step, of whatever kind, creates state
C26_RoomNotFound ==
    [][/\ (session = NoSession
             /\ lastOp'.type \notin {"init", "connect", "close", "socket_error",
                                     "PING", "error"}) => NotFoundStep
       /\ (session = NoSession /\ lastOp'.type # "init") => session' = NoSession]_vars

\* of two connections to a room that was never initialized one has sent an
\* action: it was answered and closed, the other one remains and got nothing
C26_Witness ==
    /\ lastOp = Op("not_found", FALSE, FALSE)
    /\ session = NoSession
    /\ accepted = 2
    /\ Cardinality(sockets) = 1
    /\ \E ws \in (1..MaxSockets) \ sockets : sent[ws] = NotFoundNotice
    /\ \A ws \in sockets : sent[ws] = <<>>


----------------------------------------------------------------------------
(* C27: a message that cannot be parsed as an action envelope produces only *)
(* an "Invalid action" notice to the sending connection: the persisted      *)
(* state is unchanged (updatedAt included), nothing is broadcast to other   *)
(* observers, and the sender stays connected                                *)

\* the step sent the "Invalid action" notice to one connection and nothing
\* to any other
InvalidActionNotice ==
    \E ws \in sockets :
        /\ sent'[ws] = <<ErrorMsg("Invalid action")>>
        /\ \A other \in (1..MaxSockets) \ {ws} : sent'[other] = <<>>

\* C27: every webSocketMessage step for a string that is no action envelope
\* leaves the stored session and the connections as they were and sends the
\* "Invalid action" notice to the sender only
C27_MalformedOnlyNotice ==
    [][(session # NoSession /\ lastOp'.type \in {"error", "no_envelope"}) =>
          /\ session' = session
          /\ sockets' = sockets
          /\ InvalidActionNotice]_vars


----------------------------------------------------------------------------
(* C28: a connection close or transport error never changes the persisted   *)
(* room state; it only removes that connection's name association from the  *)
(* coordinator's bookkeeping and re-arms the inactivity alarm when no        *)
(* connections remain                                                       *)

\* C28: a webSocketClose or webSocketError step leaves the stored session
\* as it is and sends nothing; of the bookkeeping at most the entry of the
\* one connection is removed (always by a close), the entries of the others
\* stay; the alarm is moved only when no connection remains, and then to
\* one window after the present, which a close always does
C28_DisconnectKeepsState ==
    [][lastOp'.type \in {"close", "socket_error"} =>
          /\ session' = session
          /\ sent' = NoSends
          /\ \E ws \in sockets :
                /\ sockets' \in {sockets, sockets \ {ws}}
                /\ sessionsMap' \in {sessionsMap, Delete(sessionsMap, ws)}
                /\ lastOp'.type = "close" =>
                      /\ ws \notin sockets'
                      /\ ws \notin DOMAIN sessionsMap'
          /\ alarm' # alarm => sockets' = {} /\ alarm' = now' + hibernationTimeout
          /\ (lastOp'.type = "close" /\ sockets' = {}) =>
                alarm' = now' + hibernationTimeout]_vars

\* one of two connections to a room has closed: the other one keeps its
\* name and the alarm stays where the last message had put it
C28_Witness ==
    /\ lastOp = Op("close", FALSE, TRUE)
    /\ session # NoSession
    /\ Cardinality(sockets) = 1
    /\ DOMAIN sessionsMap = sockets
    /\ alarm # NullNum
    /\ alarm < now + hibernationTimeout


----------------------------------------------------------------------------
(* C29: an authorized start_voting whose duration is 0 or within 1..3600    *)
(* seconds yields an open round whose endsAt is now plus the duration (null *)
(* when the duration is 0), first creating and activating a default task    *)
(* when the task list is empty, and empties the active task's vote map      *)
(* while leaving every other task's votes unchanged; a duration outside     *)
(* those bounds leaves the state unchanged except updatedAt                 *)

\* whole numbers of seconds at, next to and between the bounds
RoundDurations == AnyDurations \cup {1, 5}

\* what an accepted start_voting of d seconds at time t makes of the
\* stored session
RoundOpened(r, d, t) ==
    /\ r.voting = [status |-> "open", endsAt |-> IF d = 0 THEN NullNum ELSE t + d]
    /\ IF Len(session.tasks) = 0
       THEN /\ Len(r.tasks) = 1
            /\ r.tasks[1].title = DefaultTitle
            /\ r.tasks[1].votes = EmptyObj
            /\ r.activeTaskId = r.tasks[1].id
       ELSE /\ r.activeTaskId = session.activeTaskId
            /\ Len(r.tasks) = Len(session.tasks)
            /\ \A i \in 1..Len(r.tasks) :
                  r.tasks[i] = IF session.tasks[i].id = session.activeTaskId
                               THEN [session.tasks[i] EXCEPT !.votes = EmptyObj]
                               ELSE session.tasks[i]
    /\ [r EXCEPT !.voting = session.voting, !.tasks = session.tasks,
                 !.activeTaskId = session.activeTaskId] = Touched(session, t)

----------------------------------------------------------------------------
(* C30: the voting duration limit is 10 to 3600 seconds: a start_voting     *)
(* whose duration is outside that range is rejected and does not open a     *)
(* round                                                                    *)

\* the lower limit of the voting duration as documented
DOCUMENTED_MIN_DURATION == 10

\* C30: start_voting with the host token and a duration outside 10..3600
\* changes nothing but updatedAt
C30_DurationLimit ==
    \A d \in RoundDurations \ (DOCUMENTED_MIN_DURATION..MAX_DURATION), t \in Times :
        Result([type |-> "start_voting", durationSeconds |-> d,
                hostToken |-> session.host.hostToken], t) = Touched(session, t)


----------------------------------------------------------------------------
(* C31: session creation is limited to 5 (or RATE_LIMIT_CREATE) sessions    *)
(* per client IP per minute: for any IP and any one-minute interval, at     *)
(* most that many create requests are accepted and the rest are answered    *)
(* with status 429                                                          *)

\* C31: of the requests of one IP that passed the limiter, no more than the
\* limit lie in the minute beginning with any one of them
C31_CreateRateLimit ==
    \A ip \in DOMAIN createLog :
        \A i \in 1..Len(createLog[ip]) :
            Cardinality({j \in i..Len(createLog[ip]) :
                            createLog[ip][j] < createLog[ip][i] + RATE_LIMIT_WINDOW})
                <= RATE_LIMIT_DEFAULT


----------------------------------------------------------------------------
(* C32: calculateStats uses only the numeric deck values of a vote map: it  *)
(* returns average null and median null exactly when no numeric vote        *)
(* exists; otherwise the average is the arithmetic mean and the median is   *)
(* the middle of the ascending-sorted values for an odd count or the mean   *)
(* of the two central values for an even count, each rounded to 2 decimals  *)
(* (votes 5, 8, ? give 6.5 and 6.5; votes 3, 5, 8 give 5.33 and 5)          *)

NumericCards == deckValues \ {<<"?">>, <<"%">>}

\* the names whose vote is a numeric card
NumericVoters(votes) == {n \in DOMAIN votes : votes[n] \in NumericCards}

\* the k-th smallest of the numeric votes: fewer than k votes lie below it
\* and at least k do not lie above it
KthVote(votes, k) ==
    LET names == NumericVoters(votes)
    IN CHOOSE x \in {ToNumber(votes[n]) : n \in names} :
          /\ Cardinality({n \in names : ToNumber(votes[n]) < x}) < k
          /\ Cardinality({n \in names : ToNumber(votes[n]) <= x}) >= k

\* h hundredths is a hundredth nearest to num / den
NearestHundredth(h, num, den) ==
    /\ 2 * (100 * num - h * den) <= den
    /\ 2 * (h * den - 100 * num) <= den

StatsRight(votes) ==
    LET names == NumericVoters(votes)
        count == Cardinality(names)
        stats == calculateStats(votes)
    IN IF count = 0 THEN stats = [average |-> NullNum, median |-> NullNum]
       ELSE /\ stats.average # NullNum
            /\ stats.median # NullNum
            /\ NearestHundredth(stats.average, SumVotes(votes, names), count)
            /\ IF count % 2 = 1
               THEN stats.median = 100 * KthVote(votes, (count + 1) \div 2)
               ELSE NearestHundredth(stats.median,
                                     KthVote(votes, count \div 2)
                                        + KthVote(votes, count \div 2 + 1), 2)

\* the vote map as an observer without a name is sent it in a masked round
MaskedVotes(votes) == [n \in DOMAIN votes |-> VotedMarker]

----------------------------------------------------------------------------
(* C33: add_task appends exactly one task with an empty vote map only when  *)
(* the title is valid, the room has fewer than 100 tasks, the room is open  *)
(* or the action carries the current host token, and the actor is a current *)
(* participant; the new task becomes active only when no task was active,   *)
(* and existing tasks, their votes and the round are unchanged. In every    *)
(* other case the task list is unchanged, so the task count never exceeds   *)
(* 100                                                                      *)

\* the conditions under which the claim lets add_task append
AddTaskAllowed(a) ==
    /\ isValidTaskTitle(a)
    /\ Len(session.tasks) < MAX_TASKS_PER_SESSION
    /\ session.sessionMode = "open" \/ requireHost(session, a)
    /\ Has(a, "actor")
    /\ a.actor \in DOMAIN session.participants

\* C33: add_task appends one task with the sanitized title and no votes,
\* activating it when no task was active, exactly when AddTaskAllowed, and
\* leaves the task list as it is otherwise; no room has more than 100 tasks
C33_AddTask ==
    /\ Len(session.tasks) <= MAX_TASKS_PER_SESSION
    /\ \A ac \in AnyActors, ti \in AnyTitles, tk \in ThreeTokens, t \in Times :
          LET a == WithToken(WithActor([type |-> "add_task", title |-> ti], ac), tk)
              r == Result(a, t)
          IN IF AddTaskAllowed(a)
             THEN /\ Len(r.tasks) = Len(session.tasks) + 1
                  /\ SubSeq(r.tasks, 1, Len(session.tasks)) = session.tasks
                  /\ r.tasks[Len(r.tasks)].votes = EmptyObj
                  /\ r.tasks[Len(r.tasks)].title = sanitizeString(ti, MAX_TASK_TITLE_LENGTH)
                  /\ r.activeTaskId = IF session.activeTaskId = NoTask
                                      THEN r.tasks[Len(r.tasks)].id
                                      ELSE session.activeTaskId
                  /\ [r EXCEPT !.tasks = session.tasks,
                               !.activeTaskId = session.activeTaskId] = Touched(session, t)
             ELSE r.tasks = session.tasks


----------------------------------------------------------------------------
(* C34: an authorized add_time increases endsAt by exactly the given        *)
(* seconds only when the round is open, endsAt is set and the seconds are   *)
(* within [10, 300]; otherwise endsAt is unchanged, and add_time never      *)
(* changes the round status or any vote                                     *)

\* add_time actions with the amounts at and next to the limits, and one
\* without an amount
AddTimeInputs ==
    {[type |-> "add_time", seconds |-> sec] : sec \in AnyAmounts \cup {MIN_ADD_SECONDS + 1}}
    \cup {[type |-> "add_time"]}

\* C34: add_time with the host token adds its seconds to endsAt when the
\* round is open with an expiry and the seconds lie in 10..300, and changes
\* nothing but updatedAt in every other case
C34_AddTime ==
    \A b \in AddTimeInputs, t \in Times :
        LET a == WithToken(b, session.host.hostToken)
            r == Result(a, t)
        IN IF /\ session.voting.status = "open"
              /\ session.voting.endsAt # NullNum
              /\ Has(a, "seconds")
              /\ a.seconds \in MIN_ADD_SECONDS..MAX_ADD_SECONDS
           THEN r = [Touched(session, t) EXCEPT !.voting.endsAt = @ + a.seconds]
           ELSE r = Touched(session, t)


----------------------------------------------------------------------------
(* C35: an authorized kick whose target is the current host's name changes  *)
(* nothing but updatedAt, and an authorized transfer_host whose target is   *)
(* not a current participant leaves the host name and the host secret       *)
(* unchanged                                                                *)

\* C35: with the host token, kick of the host's own name returns the stored
\* session with updatedAt set, and transfer_host to a name that is no key of
\* participants returns a session with the same host
C35_SelfKickAndStrangerTransfer ==
    \A t \in Times :
        /\ Result([type |-> "kick", name |-> session.host.name,
                   hostToken |-> session.host.hostToken], t) = Touched(session, t)
        /\ \A n \in AnyNames \ DOMAIN session.participants :
              Result([type |-> "transfer_host", name |-> n,
                      hostToken |-> session.host.hostToken], t).host = session.host


----------------------------------------------------------------------------
(* C36: in every reachable state the current host's name is a key of        *)
(* participants: no sequence of join, kick, set_role, approve_join,         *)
(* transfer_host or other actions leaves the room with a host who is not a  *)
(* participant                                                              *)

\* C36: the host's name is a key of participants
C36_HostIsParticipant ==
    session.host.name \in DOMAIN session.participants


----------------------------------------------------------------------------
(* C37: in every reachable state, every name that has an entry in any       *)
(* task's vote map is a current participant whose role is voter: no         *)
(* sequence of actions (including join with the host token, approve_join,   *)
(* set_role and kick) leaves an observer or a non-participant with a        *)
(* recorded vote                                                            *)

\* C37: whoever has a vote on a task is a participant with the role voter
C37_VotesOnlyOfVoters ==
    \A i \in 1..Len(session.tasks) :
        \A n \in DOMAIN session.tasks[i].votes :
            /\ n \in DOMAIN session.participants
            /\ session.participants[n].role = "voter"

----------------------------------------------------------------------------
(* C38: in every reachable state no name is both a participant and a        *)
(* pending join request; a pending request is removed whenever its name     *)
(* becomes a participant, and approve_join never changes the role of a name *)
(* that is already a participant                                            *)

\* C38: participants and joinRequests share no name, and approve_join with
\* the host token leaves every participant's role as it is
C38_RequestsDisjoint ==
    /\ DOMAIN session.participants \cap DOMAIN session.joinRequests = {}
    /\ \A n \in AnyNames, t \in Times :
          LET r == Result([type |-> "approve_join", name |-> n,
                           hostToken |-> session.host.hostToken], t)
          IN \A p \in DOMAIN session.participants :
                /\ p \in DOMAIN r.participants
                /\ r.participants[p] = session.participants[p]


----------------------------------------------------------------------------
(* C39: in every reachable state voting.endsAt is non-null only while       *)
(* voting.status is open: close_voting, reveal, select_task and clear_votes *)
(* all clear the expiry, and nothing sets an expiry outside an open round   *)

\* C39: an expiry is stored only with an open round; each of close_voting,
\* reveal, clear_votes and select_task of a listed task, sent with the host
\* token, leaves no expiry; whatever action is applied, a result with an
\* expiry is an open round
C39_ExpiryOnlyWhileOpen ==
    /\ session.voting.endsAt # NullNum => session.voting.status = "open"
    /\ \A t \in Times :
          /\ \A k \in {"close_voting", "reveal", "clear_votes"} :
                Result([type |-> k, hostToken |-> session.host.hostToken], t).voting.endsAt
                    = NullNum
          /\ \A i \in 1..Len(session.tasks) :
                Result([type |-> "select_task", taskId |-> session.tasks[i].id,
                        hostToken |-> session.host.hostToken], t).voting.endsAt = NullNum
          /\ \A a \in AnyParseableActions :
                LET r == Result(a, t)
                IN (r # Thrown /\ r.voting.endsAt # NullNum) => r.voting.status = "open"

\* a round that ran with an expiry and took a vote was revealed: the expiry
\* is gone
C39_Witness ==
    /\ lastOp = Op("reveal", TRUE, TRUE)
    /\ session.voting = [status |-> "revealed", endsAt |-> NullNum]
    /\ ActiveIndex # 0
    /\ session.tasks[ActiveIndex].votes # EmptyObj


-----------------------------------------------------------------------------
(* C40: whenever a room has persisted state a cleanup alarm is pending      *)
(* (armed by init, by every connection and message, re-armed by every alarm *)
(* that does not destroy the room), so a room with zero connected observers *)
(* that receives no further messages is eventually destroyed once its last  *)
(* update is older than the 7-day threshold                                 *)

\* a room without observers whose last update is older than the threshold
Abandoned ==
    /\ session # NoSession
    /\ sockets = {}
    /\ now - session.updatedAt > sessionInactivityTimeout

====
